---- MODULE Spec2Model ----
(***************************************************************************)
(* Oplog tailing and parallel apply (src/mongo/db/repl/sync_tail.cpp).     *)
(*                                                                         *)
(* Three specifications share the variables below:                         *)
(*   SpecBatcher   - the upstream queue, the OpQueueBatcher thread         *)
(*                   (run / tryPopAndWaitForMore) and the consumer side of *)
(*                   the one-slot handoff (getNextBatch);                  *)
(*   Spec          - the top-level loop from getNextBatch on: the order    *)
(*                   check, multiApply with its thread pool (oplog writer  *)
(*                   tasks, fillWriterVectors, multiSyncApply workers) and *)
(*                   the progress markers;                                 *)
(*   SpecFinalizer - ApplyBatchFinalizer / ApplyBatchFinalizerForJournal   *)
(*                   under arbitrary record() calls.                       *)
(* Op-times are modelled by their rank in the total order (a natural       *)
(* number, 0 being the null OpTime()).                                     *)
(***************************************************************************)
EXTENDS Integers, Sequences, FiniteSets, TLC

\* ---------------------------------------------------------------- bounds
MaxWriters == 2        \* largest pool size tried (replWriterThreadCount)
MaxHash == 1           \* hash values are 0..MaxHash
MaxBatchLen == 2       \* longest mixed CRUD batch handed to the top-level loop
MaxCoreLen == 3        \* longest batch over the core templates
MaxBatches == 1        \* batches processed by the top-level loop in one run
MaxStart == 2          \* the last-applied op-time at start; batches start at 1..MaxStart+1

\* ------------------------------------------------------ program constants
kMinOplogEntriesPerThread == 16
kOplogVersion == 2

NullOpTime == 0

VARIABLES
    \* configuration read from the storage engine and the catalog
    supportsDocLocking, isDurable, numWriters, catalog,
    \* top-level loop and multiApply
    mainPc, ops, lastOpTimeInBatch, isForCapped, writerVectors, fillIdx,
    collCache, nsHashMemo, mixMemo, pool, pbwm, fatal, batchesDone,
    \* storage interface and replication coordinator
    oplogDeleteFromPoint, minValid, appliedThrough, globalTimestamp,
    localOplog, applyState, lastApplied, lastDurable,
    \* progress finalizer (ApplyBatchFinalizerForJournal's members and thread)
    recArg, latestOpTime, shutdownSignaled, waiterPc, waiterOpTime,
    \* one-slot handoff between the batcher and the top-level loop
    slot, isDead,
    \* the upstream queue (BackgroundSync), the clock and the fail point
    netQueue, netShutdown, now, slaveDelay, rsSyncApplyStop,
    \* the OpQueueBatcher thread: position, batch under assembly, BatchLimits
    bPc, bOps, limitOps, limitBytes, slaveDelayLatestTimestamp,
    \* history: entries produced upstream, entries consumed, batches published
    produced, consumed, publishedBatches,
    \* the arguments of a direct call of repl::multiApply
    callArgs,
    \* what the latest getNextBatch result met at the coordinator: whether it
    \* was the drained sentinel, isWaitingForApplierToDrain() as read for it,
    \* and whether signalDrainComplete was called
    drain,
    \* one call of SyncTail::syncApply: the op, the catalog it meets, its
    \* position, the locks it holds, its write conflicts so far, its result
    sa,
    \* one run of multiInitialSyncApply_noAbort: the slot, the iterator, the
    \* position, the syncApply calls made and the fate of each op, the result
    isw,
    \* one call of getMissingDoc: the collection and the op it is about, the
    \* fail point, the position, the loop counter, the sleeps made, the outcome
    \* of each attempt, the result
    gmd

cfgVars == <<supportsDocLocking, isDurable, numWriters, catalog, callArgs, drain, sa,
            isw, gmd>>
hashVars == <<nsHashMemo, mixMemo>>
markerVars == <<oplogDeleteFromPoint, minValid, appliedThrough, globalTimestamp,
                lastApplied, lastDurable>>
netVars == <<netQueue, netShutdown, now, slaveDelay, rsSyncApplyStop, produced>>
batcherVars == <<bPc, bOps, limitOps, limitBytes, slaveDelayLatestTimestamp, consumed>>
\* the variables only the batcher's side of the model uses
upstreamVars == <<netQueue, netShutdown, now, slaveDelay, rsSyncApplyStop,
                  bPc, bOps, limitOps, limitBytes, slaveDelayLatestTimestamp,
                  produced, consumed, publishedBatches>>
finVars == <<recArg, latestOpTime, shutdownSignaled, waiterPc, waiterOpTime>>
batchVars == <<ops, lastOpTimeInBatch, isForCapped, writerVectors, fillIdx, collCache>>

vars == <<supportsDocLocking, isDurable, numWriters, catalog,
          mainPc, ops, lastOpTimeInBatch, isForCapped, writerVectors, fillIdx,
          collCache, nsHashMemo, mixMemo, pool, pbwm, fatal, batchesDone,
          oplogDeleteFromPoint, minValid, appliedThrough, globalTimestamp,
          localOplog, applyState, lastApplied, lastDurable,
          recArg, latestOpTime, shutdownSignaled, waiterPc, waiterOpTime, slot, isDead,
          netQueue, netShutdown, now, slaveDelay, rsSyncApplyStop,
          bPc, bOps, limitOps, limitBytes, slaveDelayLatestTimestamp,
          produced, consumed, publishedBatches, callArgs, drain, sa, isw, gmd>>

\* ------------------------------------------------------------ oplog entry
CrudNamespaces == {"a.x", "a.y"}
HashVals == 0..MaxHash
DocIds == {1, 2}

\* OplogEntry: raw = FALSE is the drained sentinel (empty raw document).
MkEntry(op, ns, id, sz) ==
    [raw |-> TRUE, op |-> op, ns |-> ns, id |-> id, ts |-> 0, sz |-> sz, ver |-> kOplogVersion]

Sentinel ==
    [raw |-> FALSE, op |-> "", ns |-> "", id |-> 0, ts |-> 0, sz |-> 1, ver |-> 0]

isCrudOpType(opType) == opType \in {"d", "i", "u"}

\* nsToCollectionSubstring(ns) == "system.indexes"
IsSystemIndexes(ns) == ns = "a.system.indexes"

\* OpQueue (sync_tail.h): entries, byte count and the mustShutdown flag.
EmptyQueue == [ents |-> <<>>, bytes |-> 0, shut |-> FALSE]

\* ----------------------------------------------------------- partitioner
\* CachedCollectionProperties::getCollectionPropertiesImpl: the catalog's answer
\* (a missing database or collection gives the defaults).
DefaultProperties == [isCapped |-> FALSE, collator |-> FALSE]
getCollectionPropertiesImpl(ns) ==
    IF ns \in DOMAIN catalog THEN catalog[ns] ELSE DefaultProperties

\* CachedCollectionProperties::getCollectionProperties: the cached answer, else
\* the catalog's; CacheAfter is the cache the call leaves behind.
getCollectionProperties(cache, ns) ==
    IF ns \in DOMAIN cache THEN cache[ns] ELSE getCollectionPropertiesImpl(ns)
CacheAfter(cache, ns) ==
    IF ns \in DOMAIN cache THEN cache
    ELSE [n \in DOMAIN cache \cup {ns} |->
            IF n = ns THEN getCollectionPropertiesImpl(ns) ELSE cache[n]]

\* The condition without the exclusion of capped collections.
UseIdHash_cappedToo(docLocking, props) ==
    docLocking /\ ~props.collator

\* The condition under which the document id is mixed into the hash.
UseIdHash(docLocking, props) ==
    docLocking /\ ~props.isCapped /\ ~props.collator

\* op.getIdElement(): the _id of the document the op targets.
getIdElement(e) == e.id

\* A partitioner that deals the ops out in turn instead of by hash.
WriterSlot_roundRobin(hash, n) == (fillIdx % n) + 1

\* hash % numWriters, as an index into writerVectors (1-based).
WriterSlot(hash, n) == (hash % n) + 1

\* The hash functions (StringMapTraits::HashedKey, SimpleBSONElementComparator
\* hash and MurmurHash3_x86_32) are opaque deterministic functions: a value is
\* drawn the first time an input is hashed and remembered in the memo.
MemoGet(memo, key, h) == IF key \in DOMAIN memo THEN memo[key] ELSE h
MemoPut(memo, key, h) ==
    IF key \in DOMAIN memo THEN memo
    ELSE [k \in DOMAIN memo \cup {key} |-> IF k = key THEN h ELSE memo[k]]

\* A partitioner that marks no op.
MarksForCapped_never(e, props) == FALSE

\* op.opType == "i" && collProperties.isCapped: the op gets isForCappedCollection.
MarksForCapped(e, props) == e.op = "i" /\ props.isCapped

\* One iteration of the loop of fillWriterVectors, for the op at fillIdx.
\* h1 is the namespace hash and h2 the mixed hash, where not yet memoised.
FillOne(h1, h2) ==
    LET e == ops[fillIdx]
        hashNs == MemoGet(nsHashMemo, e.ns, h1)
        crud == isCrudOpType(e.op)
        props == getCollectionProperties(collCache, e.ns)
        mix == crud /\ UseIdHash(supportsDocLocking, props)
        key == <<getIdElement(e), hashNs>>
        hash == IF mix THEN MemoGet(mixMemo, key, h2) ELSE hashNs
        w == WriterSlot(hash, numWriters)
    IN  /\ (e.ns \in DOMAIN nsHashMemo => h1 = nsHashMemo[e.ns])
        /\ (IF mix /\ key \notin DOMAIN mixMemo THEN TRUE
            ELSE h2 = IF mix THEN mixMemo[key] ELSE 0)
        /\ nsHashMemo' = MemoPut(nsHashMemo, e.ns, h1)
        /\ mixMemo' = IF mix THEN MemoPut(mixMemo, key, h2) ELSE mixMemo
        /\ collCache' = IF crud THEN CacheAfter(collCache, e.ns) ELSE collCache
        /\ isForCapped' = IF crud /\ MarksForCapped(e, props)
                          THEN [isForCapped EXCEPT ![fillIdx] = TRUE]
                          ELSE isForCapped
        /\ writerVectors' = [writerVectors EXCEPT ![w] = Append(@, fillIdx)]
        /\ fillIdx' = fillIdx + 1

\* ------------------------------------------------------ oplog writer tasks
\* Ranges whose last one does not take the remainder of the division.
OplogWriterRanges_noRemainder(n, numThreads, docLocking) ==
    LET enoughToMultiThread == n >= kMinOplogEntriesPerThread * numThreads
        numOpsPerThread == n \div numThreads
    IN  IF ~enoughToMultiThread \/ ~docLocking
        THEN <<[lo |-> 0, hi |-> n]>>
        ELSE [t \in 1..numThreads |->
                [lo |-> (t - 1) * numOpsPerThread,
                 hi |-> (t - 1) * numOpsPerThread + numOpsPerThread]]

\* scheduleWritesToOplog: the [begin, end) ranges of the tasks it schedules.
OplogWriterRanges(n, numThreads, docLocking) ==
    LET enoughToMultiThread == n >= kMinOplogEntriesPerThread * numThreads
        numOpsPerThread == n \div numThreads
    IN  IF ~enoughToMultiThread \/ ~docLocking
        THEN <<[lo |-> 0, hi |-> n]>>
        ELSE [t \in 1..numThreads |->
                [lo |-> (t - 1) * numOpsPerThread,
                 hi |-> IF t - 1 = numThreads - 1 THEN n
                        ELSE (t - 1) * numOpsPerThread + numOpsPerThread]]

\* A task of the OldThreadPool; st is queued, running or done.
OplogTask(r) ==
    [kind |-> "oplog", lo |-> r.lo, hi |-> r.hi, slot |-> 0, st |-> "queued",
     vec |-> <<>>, it |-> 0, dngb |-> 0, cur |-> <<>>, gend |-> 0, failedTo |-> 0,
     arg |-> <<>>]
ApplyTask(w) ==
    [kind |-> "apply", lo |-> 0, hi |-> 0, slot |-> w, st |-> "queued",
     vec |-> writerVectors[w], it |-> 0, dngb |-> 0, cur |-> <<>>, gend |-> 0,
     failedTo |-> 0, arg |-> <<>>]

Running == {t \in DOMAIN pool : pool[t].st = "running"}
\* A pool thread is free and t is the oldest queued task.
CanStart(t) ==
    /\ fatal = ""
    /\ t \in DOMAIN pool
    /\ pool[t].st = "queued"
    /\ Cardinality(Running) < numWriters
    /\ \A u \in 1..(t - 1) : pool[u].st # "queued"

\* ------------------------------------------------------------ apply worker
\* The order of std::string operator< on the namespaces of the model.
NsRank(ns) ==
    CASE ns = "" -> 0
      [] ns = "a.$cmd" -> 1
      [] ns = "a.system.indexes" -> 2
      [] ns = "a.x" -> 3
      [] OTHER -> 4

RECURSIVE SortFrom(_, _)
SortFrom(vec, r) ==
    IF r > 4 THEN <<>>
    ELSE SelectSeq(vec, LAMBDA i : NsRank(ops[i].ns) = r) \o SortFrom(vec, r + 1)

RECURSIVE Reverse(_)
Reverse(q) == IF q = <<>> THEN <<>> ELSE Reverse(Tail(q)) \o <<q[1]>>

\* A sort by namespace that does not keep equal elements in their order.
StableSortByNs_unstable(vec) == IF Len(vec) > 1 THEN SortFrom(Reverse(vec), 0) ELSE vec

\* std::stable_sort of the slot by namespace: ops of one namespace keep their
\* relative order.
StableSortByNs(vec) == IF Len(vec) > 1 THEN SortFrom(vec, 0) ELSE vec

\* The payload cap of one grouped insert (insertVectorMaxBytes), scaled down,
\* and the cap on the number of entries counted by the find_if predicate.
InsertVectorMaxBytes == 3
kMaxGroupCount == 64

\* std::find_if over [k, end) with the grouping predicate; batchSize and
\* batchCount are the predicate's captured counters (updated only when the
\* earlier disjuncts are false). Returns the index of the first op that ends
\* the group, Len(vec) + 1 standing for end().
RECURSIVE FindEndOfGroupable(_, _, _, _, _)
FindEndOfGroupable(vec, k, batchSize, batchCount, entry) ==
    IF k > Len(vec) THEN k
    ELSE LET nextEntry == ops[vec[k]]
         IN  IF nextEntry.op # "i" \/ nextEntry.ns # entry.ns THEN k
             ELSE IF batchSize + nextEntry.sz > InsertVectorMaxBytes THEN k
             ELSE IF batchCount + 1 >= kMaxGroupCount THEN k
             ELSE FindEndOfGroupable(vec, k + 1, batchSize + nextEntry.sz,
                                     batchCount + 1, entry)

\* entry->o.Obj(): the document of an insert.
Payload(e) == [id |-> e.id, sz |-> e.sz]

\* insertArrayBuilder: the loop of groupingIterator over [it, endOfGroupable)
\* appending each op's document.
RECURSIVE insertArrayBuilder(_, _, _)
insertArrayBuilder(vec, it, endOfGroupable) ==
    IF it = endOfGroupable THEN <<>>
    ELSE <<Payload(ops[vec[it]])>> \o insertArrayBuilder(vec, it + 1, endOfGroupable)

\* A grouped entry that leaves out the group's last document.
groupedInsertBuilder_short(vec, it, endOfGroupable) ==
    LET entry == ops[vec[it]]
    IN  [raw |-> entry.raw, op |-> entry.op, ns |-> entry.ns, ts |-> entry.ts,
         ver |-> entry.ver, o |-> insertArrayBuilder(vec, it, endOfGroupable - 1)]

\* groupedInsertBuilder: every element of the first op's raw document but
\* "o", and "o" as the array of the group's documents.
groupedInsertBuilder(vec, it, endOfGroupable) ==
    LET entry == ops[vec[it]]
    IN  [raw |-> entry.raw, op |-> entry.op, ns |-> entry.ns, ts |-> entry.ts,
         ver |-> entry.ver, o |-> insertArrayBuilder(vec, it, endOfGroupable)]

SetState(st, idxs, v) ==
    [i \in DOMAIN st |-> IF \E k \in DOMAIN idxs : idxs[k] = i THEN v ELSE st[i]]

WorkerUnchanged ==
    UNCHANGED <<cfgVars, upstreamVars, hashVars, markerVars, batchVars, finVars, mainPc, pbwm,
                batchesDone, localOplog, slot, isDead>>

\* A pool thread takes an oplog writer task.
OplogWriterStart(t) ==
    /\ CanStart(t)
    /\ pool[t].kind = "oplog"
    /\ pool' = [pool EXCEPT ![t].st = "running"]
    /\ UNCHANGED <<applyState, fatal>>
    /\ WorkerUnchanged

\* The task's insertDocuments of ops[begin, end) into the local oplog.
OplogWriterRun(t) ==
    /\ fatal = ""
    /\ t \in DOMAIN pool
    /\ pool[t].kind = "oplog"
    /\ pool[t].st = "running"
    /\ localOplog' = [i \in DOMAIN localOplog |->
                        IF pool[t].lo < i /\ i <= pool[t].hi
                        THEN localOplog[i] + 1 ELSE localOplog[i]]
    /\ pool' = [pool EXCEPT ![t].st = "done"]
    /\ UNCHANGED <<cfgVars, upstreamVars, hashVars, markerVars, batchVars, finVars, mainPc, pbwm,
                   batchesDone, slot, isDead, applyState, fatal>>

\* multiSyncApply: a pool thread takes the slot's task and sorts the slot.
WorkerStart(t) ==
    /\ CanStart(t)
    /\ pool[t].kind = "apply"
    /\ pool' = [pool EXCEPT ![t].st = "running",
                            ![t].vec = StableSortByNs(@),
                            ![t].it = 1,
                            ![t].dngb = 1]
    /\ UNCHANGED <<applyState, fatal>>
    /\ WorkerUnchanged

AtOp(t) ==
    /\ fatal = ""
    /\ t \in DOMAIN pool
    /\ pool[t].kind = "apply"
    /\ pool[t].st = "running"

\* arg is the document handed to the syncApply call in flight.
\* The head of one loop iteration: try to form an insert group and start the
\* grouped syncApply, or start the single-op syncApply.
WorkerNext(t) ==
    /\ AtOp(t)
    /\ pool[t].cur = <<>>
    /\ pool[t].it <= Len(pool[t].vec)
    /\ LET vec == pool[t].vec
           it == pool[t].it
           entry == ops[vec[it]]
           tryGroup == entry.op = "i" /\ ~isForCapped[vec[it]] /\ it > pool[t].dngb
           endOfGroupable == FindEndOfGroupable(vec, it + 1, 0, 0, entry)
           grouped == tryGroup /\ endOfGroupable # it + 1
           call == IF grouped THEN SubSeq(vec, it, endOfGroupable - 1) ELSE <<vec[it]>>
       IN  /\ pool' = [pool EXCEPT ![t].cur = call,
                                   ![t].gend = IF grouped THEN endOfGroupable ELSE 0,
                                   ![t].arg = IF grouped
                                              THEN <<groupedInsertBuilder(vec, it, endOfGroupable)>>
                                              ELSE <<entry>>]
           /\ applyState' = SetState(applyState, call, "inflight")
    /\ UNCHANGED fatal
    /\ WorkerUnchanged

\* An iterator that a successful grouped insert moves one op too far.
IteratorAfterGroup_skips(endOfGroupable) == endOfGroupable + 1

\* oplogEntriesIterator = endOfGroupableOpsIterator - 1; continue; and the
\* loop's ++oplogEntriesIterator.
IteratorAfterGroup(endOfGroupable) == (endOfGroupable - 1) + 1

\* A cursor that a failed grouped insert leaves where it was.
doNotGroupBeforeAfterFailure_unmoved(dngb, endOfGroupable) == dngb

\* doNotGroupBeforePoint after a failed grouped insert: the group's last op.
doNotGroupBeforeAfterFailure(dngb, endOfGroupable) == endOfGroupable - 1

\* The grouped syncApply returns: on success the iterator moves to the group's
\* last op (and the loop increments it); on failure doNotGroupBeforePoint is
\* set to the group's last op and the first op is applied alone. failedTo
\* records the position of the last op of the latest failed group (0: none).
WorkerGroupReturn(t, ok) ==
    /\ AtOp(t)
    /\ pool[t].cur # <<>>
    /\ pool[t].gend # 0
    /\ IF ok
       THEN /\ pool' = [pool EXCEPT ![t].cur = <<>>,
                                    ![t].it = IteratorAfterGroup(pool[t].gend),
                                    ![t].gend = 0, ![t].arg = <<>>]
            /\ applyState' = SetState(applyState, pool[t].cur, "done")
       ELSE /\ pool' = [pool EXCEPT ![t].cur = <<pool[t].vec[pool[t].it]>>,
                                    ![t].dngb = doNotGroupBeforeAfterFailure(
                                                    @, pool[t].gend),
                                    ![t].failedTo = pool[t].gend - 1,
                                    ![t].gend = 0,
                                    ![t].arg = <<ops[pool[t].vec[pool[t].it]]>>]
            /\ applyState' = SetState(SetState(applyState, pool[t].cur, "none"),
                                      <<pool[t].vec[pool[t].it]>>, "inflight")
    /\ UNCHANGED fatal
    /\ WorkerUnchanged

\* The single-op syncApply returns: a failure is returned by the worker and is
\* fatal (fassertNoTrace 16359).
WorkerSingleReturn(t, ok) ==
    /\ AtOp(t)
    /\ pool[t].cur # <<>>
    /\ pool[t].gend = 0
    /\ IF ok
       THEN /\ pool' = [pool EXCEPT ![t].cur = <<>>, ![t].it = @ + 1, ![t].arg = <<>>]
            /\ applyState' = SetState(applyState, pool[t].cur, "done")
            /\ UNCHANGED fatal
       ELSE /\ fatal' = "ApplyFailed"
            /\ UNCHANGED <<pool, applyState>>
    /\ WorkerUnchanged

\* The loop is over: the worker returns Status::OK().
WorkerFinish(t) ==
    /\ AtOp(t)
    /\ pool[t].cur = <<>>
    /\ pool[t].it > Len(pool[t].vec)
    /\ pool' = [pool EXCEPT ![t].st = "done"]
    /\ UNCHANGED <<applyState, fatal>>
    /\ WorkerUnchanged

\* ------------------------------------------------------ progress finalizer
\* ReplicationCoordinator::setMyLastAppliedOpTimeForward and
\* setMyLastDurableOpTimeForward: the published value moves only forward.
setMyLastOpTimeForward(published, newOpTime) ==
    IF newOpTime > published THEN newOpTime ELSE published

\* A publish that stores whatever op-time it is given.
recordApplied_overwrite(published, newOpTime) == newOpTime

\* ApplyBatchFinalizer::_recordApplied and _recordDurable: the value published
\* by the call, given the value published before.
recordApplied(published, newOpTime) == setMyLastOpTimeForward(published, newOpTime)
recordDurable(published, newOpTime) == setMyLastOpTimeForward(published, newOpTime)

\* A record() that hands the op-time on without publishing it as applied.
RecordApplied_notPublished(ret) ==
    /\ fatal = ""
    /\ mainPc = "record"
    /\ mainPc' = IF isDurable THEN "record_notify" ELSE ret
    /\ UNCHANGED <<cfgVars, upstreamVars, hashVars, batchVars, pool, pbwm, fatal, batchesDone,
                   markerVars, localOplog, applyState, finVars, slot, isDead>>

\* record(), first half: _recordApplied. The plain finalizer returns (to pc
\* ret); the journal finalizer goes on to take _mutex.
RecordApplied(ret) ==
    /\ fatal = ""
    /\ mainPc = "record"
    /\ lastApplied' = recordApplied(lastApplied, recArg)
    /\ mainPc' = IF isDurable THEN "record_notify" ELSE ret
    /\ UNCHANGED <<cfgVars, upstreamVars, hashVars, batchVars, pool, pbwm, fatal, batchesDone,
                   oplogDeleteFromPoint, minValid, appliedThrough, globalTimestamp,
                   lastDurable, localOplog, applyState, finVars, slot, isDead>>

\* ApplyBatchFinalizerForJournal::record, second half: under _mutex store
\* _latestOpTime and notify the waiter.
RecordNotify(ret) ==
    /\ fatal = ""
    /\ mainPc = "record_notify"
    /\ latestOpTime' = recArg
    /\ mainPc' = ret
    /\ UNCHANGED <<cfgVars, upstreamVars, hashVars, batchVars, markerVars, pool, pbwm, fatal,
                   batchesDone, localOplog, applyState, recArg, shutdownSignaled,
                   waiterPc, waiterOpTime, slot, isDead>>

WaiterUnchanged ==
    UNCHANGED <<cfgVars, upstreamVars, hashVars, batchVars, pool, pbwm, fatal, batchesDone, mainPc,
                oplogDeleteFromPoint, minValid, appliedThrough, globalTimestamp,
                lastApplied, localOplog, applyState, recArg, shutdownSignaled, slot,
                isDead>>

\* A waiter that publishes the op-time it takes without waiting for a flush.
WaiterTake_noFlush ==
    /\ fatal = ""
    /\ waiterPc = "wait"
    /\ ~shutdownSignaled
    /\ latestOpTime # NullOpTime
    /\ waiterOpTime' = latestOpTime
    /\ latestOpTime' = NullOpTime
    /\ lastDurable' = recordDurable(lastDurable, latestOpTime)
    /\ UNCHANGED waiterPc
    /\ WaiterUnchanged

\* _run: the wait loop ends with an op-time to flush; it is taken and
\* _latestOpTime reset, and waitUntilDurable begins.
WaiterTake ==
    /\ fatal = ""
    /\ waiterPc = "wait"
    /\ ~shutdownSignaled
    /\ latestOpTime # NullOpTime
    /\ waiterOpTime' = latestOpTime
    /\ latestOpTime' = NullOpTime
    /\ waiterPc' = "flush"
    /\ UNCHANGED lastDurable
    /\ WaiterUnchanged

\* A waiter that resets _latestOpTime after the flush instead of before it.
WaiterDurable_resetsAfterFlush ==
    /\ fatal = ""
    /\ waiterPc = "flush"
    /\ lastDurable' = recordDurable(lastDurable, waiterOpTime)
    /\ waiterPc' = "wait"
    /\ latestOpTime' = NullOpTime
    /\ UNCHANGED waiterOpTime
    /\ WaiterUnchanged

\* _run: waitUntilDurable has returned; _recordDurable(latestOpTime).
WaiterDurable ==
    /\ fatal = ""
    /\ waiterPc = "flush"
    /\ lastDurable' = recordDurable(lastDurable, waiterOpTime)
    /\ waiterPc' = "wait"
    /\ UNCHANGED <<latestOpTime, waiterOpTime>>
    /\ WaiterUnchanged

\* _run: _shutdownSignaled is seen under the mutex; the thread returns.
WaiterExit ==
    /\ fatal = ""
    /\ waiterPc = "wait"
    /\ shutdownSignaled
    /\ waiterPc' = "exit"
    /\ UNCHANGED <<latestOpTime, waiterOpTime, lastDurable>>
    /\ WaiterUnchanged

\* ----------------------------------------------------------- top-level loop
MainUnchanged ==
    UNCHANGED <<cfgVars, upstreamVars, hashVars, batchesDone, isDead, waiterPc,
                waiterOpTime, latestOpTime, lastDurable, lastApplied>>

\* The batch-local state of one loop iteration: the ops moved out of the
\* OpQueue, and in multiApply the writer vectors and the properties cache.
BatchState(ents) ==
    /\ ops' = ents
    /\ fillIdx' = 1
    /\ isForCapped' = [i \in DOMAIN ents |-> FALSE]
    /\ writerVectors' = IF ents = <<>> THEN <<>> ELSE [w \in 1..numWriters |-> <<>>]
    /\ collCache' = <<>>

NoDrain == [sentinel |-> FALSE, waiting |-> FALSE, signaled |-> FALSE]

\* No getMissingDoc call is being followed.
NoGetMissingDoc == [capped |-> FALSE, hasId |-> TRUE, failPoint |-> FALSE, pc |-> "rest",
                    retryCount |-> 1, slept |-> <<>>, tried |-> <<>>, result |-> ""]

\* No initial-sync worker is being followed.
NoInitialSync == [crud |-> <<>>, it |-> 1, pc |-> "done", calls |-> <<>>, fate |-> <<>>,
                  status |-> ""]

\* No syncApply call is being followed.
NoSyncApply ==
    [class |-> "", dbExists |-> FALSE, collExists |-> FALSE, pc |-> "done", locks |-> {},
     conflicts |-> 0, status |-> ""]

\* A loop that signals drain-complete for every sentinel.
SignalsDrainComplete_always(isWaitingForApplierToDrain) == TRUE

\* if (replCoord->isWaitingForApplierToDrain()) replCoord->signalDrainComplete(&txn)
SignalsDrainComplete(isWaitingForApplierToDrain) == isWaitingForApplierToDrain

\* What oplogApplication does with the OpQueue that getNextBatch returned.
Dispatch(q) ==
    /\ slot' = EmptyQueue
    /\ IF q.ents = <<>>
       THEN /\ mainPc' = IF q.shut THEN "dtor_finalizer" ELSE "loop"
            /\ BatchState(<<>>)
            /\ drain' = NoDrain
            /\ UNCHANGED <<fatal, applyState, localOplog>>
       ELSE IF ~q.ents[1].raw
       THEN \* the drained sentinel: invariant(ops.getCount() == 1)
            /\ IF Len(q.ents) = 1
               THEN /\ mainPc' = "loop"
                    /\ \E isWaitingForApplierToDrain \in BOOLEAN :
                          drain' = [sentinel |-> TRUE,
                                    waiting |-> isWaitingForApplierToDrain,
                                    signaled |-> SignalsDrainComplete(
                                                     isWaitingForApplierToDrain)]
                    /\ UNCHANGED fatal
               ELSE fatal' = "invariant" /\ UNCHANGED <<mainPc, drain>>
            /\ BatchState(<<>>)
            /\ UNCHANGED <<applyState, localOplog>>
       ELSE /\ mainPc' = "checkOrder"
            /\ BatchState(q.ents)
            /\ drain' = NoDrain
            /\ applyState' = [i \in DOMAIN q.ents |-> "none"]
            /\ localOplog' = [i \in DOMAIN q.ents |-> 0]
            /\ UNCHANGED fatal
    /\ UNCHANGED <<lastOpTimeInBatch, pool, pbwm, oplogDeleteFromPoint, minValid,
                   appliedThrough, globalTimestamp, recArg, shutdownSignaled>>
    /\ UNCHANGED <<supportsDocLocking, isDurable, numWriters, catalog, callArgs, sa, isw, gmd,
                   upstreamVars, hashVars, batchesDone, isDead, waiterPc, waiterOpTime,
                   latestOpTime, lastDurable, lastApplied>>

\* getNextBatch: with a batch (or the shutdown flag) in the slot it is taken at
\* once; otherwise the caller waits on the condition variable.
GetNextBatch ==
    /\ fatal = ""
    /\ mainPc = "loop"
    /\ IF slot.ents = <<>> /\ ~slot.shut
       THEN /\ mainPc' = "gnb_wait"
            /\ UNCHANGED <<batchVars, pool, pbwm, fatal, markerVars, localOplog,
                           applyState, finVars, slot, cfgVars, hashVars, batchesDone,
                           isDead, upstreamVars>>
       ELSE Dispatch(slot)

\* getNextBatch: wait_for returns (notified or timed out); whatever is in the
\* slot is moved out.
GetNextBatchWake ==
    /\ fatal = ""
    /\ mainPc = "gnb_wait"
    /\ Dispatch(slot)

\* An order check that lets a repeated op-time through.
OutOfOrder_strict(firstOpTimeInBatch, applied) == firstOpTimeInBatch < applied

\* firstOpTimeInBatch <= replCoord->getMyLastAppliedOpTime()
OutOfOrder(firstOpTimeInBatch, applied) == firstOpTimeInBatch <= applied

\* The order check of oplogApplication (fassert 34361, OplogOutOfOrder).
CheckOrder ==
    /\ fatal = ""
    /\ mainPc = "checkOrder"
    /\ lastOpTimeInBatch' = ops[Len(ops)].ts
    /\ IF OutOfOrder(ops[1].ts, lastApplied)
       THEN fatal' = "OplogOutOfOrder" /\ UNCHANGED mainPc
       ELSE mainPc' = "multiApply" /\ UNCHANGED fatal
    /\ UNCHANGED <<ops, isForCapped, writerVectors, fillIdx, collCache, pool, pbwm,
                   oplogDeleteFromPoint, minValid, appliedThrough, globalTimestamp,
                   localOplog, applyState, recArg, shutdownSignaled, slot>>
    /\ MainUnchanged

MainStep(from, to) ==
    /\ fatal = ""
    /\ mainPc = from
    /\ mainPc' = to

\* The arguments SyncTail::multiApply passes: all present; the member state is
\* whatever it is at the time of the call.
ValidCallArgs == [txn |-> TRUE, pool |-> TRUE, fn |-> TRUE, primary |-> FALSE]
CallArgsSet == [txn : BOOLEAN, pool : BOOLEAN, fn : BOOLEAN, primary : BOOLEAN]

\* Argument checks that let a primary through.
multiApplyChecks_primaryPasses(txnOk, poolOk, opsEmpty, fnOk, primary) ==
    IF ~txnOk \/ ~poolOk \/ ~fnOk THEN "BadValue"
    ELSE IF opsEmpty THEN "EmptyArrayOperation"
    ELSE "OK"

\* multiApply's checks in the order of the code: the status it returns before
\* doing any work, or OK. primary stands for getMemberState().primary() &&
\* !isWaitingForApplierToDrain() && !isCatchingUp().
multiApplyChecks(txnOk, poolOk, opsEmpty, fnOk, primary) ==
    IF ~txnOk THEN "BadValue"
    ELSE IF ~poolOk THEN "BadValue"
    ELSE IF opsEmpty THEN "EmptyArrayOperation"
    ELSE IF ~fnOk THEN "BadValue"
    ELSE IF primary THEN "CannotApplyOplogWhilePrimary"
    ELSE "OK"

\* multiApply up to the primary check, called by SyncTail::multiApply: with OK
\* parallel-batch-writer mode stays taken for the block that follows; any other
\* status is turned into a fatal assertion (34437) by SyncTail::multiApply.
MultiApplyEnter(primary) ==
    /\ fatal = ""
    /\ mainPc = "multiApply"
    /\ LET status == multiApplyChecks(TRUE, TRUE, ops = <<>>, TRUE, primary) IN
       IF status # "OK"
       THEN fatal' = status /\ UNCHANGED <<mainPc, pbwm>>
       ELSE mainPc' = "ma_setDeleteFrom" /\ pbwm' = TRUE /\ UNCHANGED fatal
    /\ UNCHANGED <<batchVars, pool, oplogDeleteFromPoint, minValid,
                   appliedThrough, globalTimestamp, localOplog, applyState, recArg,
                   shutdownSignaled, slot>>
    /\ MainUnchanged

\* storage->setOplogDeleteFromPoint(txn, ops.front().ts.timestamp())
SetOplogDeleteFromPoint ==
    /\ MainStep("ma_setDeleteFrom", "ma_schedule")
    /\ oplogDeleteFromPoint' = ops[1].ts
    /\ UNCHANGED <<batchVars, pool, pbwm, fatal, minValid, appliedThrough,
                   globalTimestamp, localOplog, applyState, recArg, shutdownSignaled,
                   slot>>
    /\ MainUnchanged

\* scheduleWritesToOplog(txn, workerPool, ops)
scheduleWritesToOplog ==
    /\ MainStep("ma_schedule", "ma_fill")
    /\ pool' = LET r == OplogWriterRanges(Len(ops), numWriters, supportsDocLocking)
               IN  pool \o [t \in DOMAIN r |-> OplogTask(r[t])]
    /\ UNCHANGED <<batchVars, pbwm, fatal, oplogDeleteFromPoint, minValid,
                   appliedThrough, globalTimestamp, localOplog, applyState, recArg,
                   shutdownSignaled, slot>>
    /\ MainUnchanged

\* fillWriterVectors: one iteration of its loop.
fillWriterVectors(h1, h2) ==
    /\ fatal = ""
    /\ mainPc = "ma_fill"
    /\ fillIdx <= Len(ops)
    /\ FillOne(h1, h2)
    /\ UNCHANGED <<cfgVars, upstreamVars, ops, lastOpTimeInBatch, pool, pbwm, fatal, batchesDone,
                   mainPc, markerVars, localOplog, applyState, finVars, slot, isDead>>

\* OldThreadPool::join returns when no task is queued or running.
PoolJoined(p) == \A t \in DOMAIN p : p[t].st = "done"
NotDone(t) == t.st # "done"

\* multiApply without the join between its two phases.
JoinOplogWriters_noJoin ==
    /\ MainStep("ma_fill", "ma_clearDeleteFrom")
    /\ fillIdx > Len(ops)
    /\ pool' = SelectSeq(pool, NotDone)
    /\ UNCHANGED <<batchVars, pbwm, fatal, oplogDeleteFromPoint, minValid,
                   appliedThrough, globalTimestamp, localOplog, applyState, recArg,
                   shutdownSignaled, slot>>
    /\ MainUnchanged

\* workerPool->join() after fillWriterVectors: every scheduled task has run.
JoinOplogWriters ==
    /\ MainStep("ma_fill", "ma_clearDeleteFrom")
    /\ fillIdx > Len(ops)
    /\ PoolJoined(pool)
    /\ pool' = SelectSeq(pool, NotDone)
    /\ UNCHANGED <<batchVars, pbwm, fatal, oplogDeleteFromPoint, minValid,
                   appliedThrough, globalTimestamp, localOplog, applyState, recArg,
                   shutdownSignaled, slot>>
    /\ MainUnchanged

\* multiApply leaving the marker set when it goes on to apply.
ClearOplogDeleteFromPoint_skipped ==
    /\ MainStep("ma_clearDeleteFrom", "ma_setMinValid")
    /\ UNCHANGED <<batchVars, pool, pbwm, fatal, minValid, appliedThrough,
                   oplogDeleteFromPoint, globalTimestamp, localOplog, applyState,
                   recArg, shutdownSignaled, slot>>
    /\ MainUnchanged

\* storage->setOplogDeleteFromPoint(txn, Timestamp())
ClearOplogDeleteFromPoint ==
    /\ MainStep("ma_clearDeleteFrom", "ma_setMinValid")
    /\ oplogDeleteFromPoint' = NullOpTime
    /\ UNCHANGED <<batchVars, pool, pbwm, fatal, minValid, appliedThrough,
                   globalTimestamp, localOplog, applyState, recArg, shutdownSignaled,
                   slot>>
    /\ MainUnchanged

\* StorageInterface::setMinValidToAtLeast
setMinValidToAtLeast(cur, opTime) == IF opTime > cur THEN opTime ELSE cur

\* storage->setMinValidToAtLeast(txn, ops.back().getOpTime())
SetMinValid ==
    /\ MainStep("ma_setMinValid", "ma_applyOps")
    /\ minValid' = setMinValidToAtLeast(minValid, ops[Len(ops)].ts)
    /\ UNCHANGED <<batchVars, pool, pbwm, fatal, oplogDeleteFromPoint, appliedThrough,
                   globalTimestamp, localOplog, applyState, recArg, shutdownSignaled,
                   slot>>
    /\ MainUnchanged

\* applyOps: one task per non-empty writer vector, in slot order.
NonEmptySlots == {w \in DOMAIN writerVectors : writerVectors[w] # <<>>}
RECURSIVE SlotTasks(_)
SlotTasks(w) ==
    IF w > Len(writerVectors) THEN <<>>
    ELSE (IF w \in NonEmptySlots THEN <<ApplyTask(w)>> ELSE <<>>) \o SlotTasks(w + 1)

applyOps ==
    /\ MainStep("ma_applyOps", "ma_join")
    /\ pool' = pool \o SlotTasks(1)
    /\ UNCHANGED <<batchVars, pbwm, fatal, oplogDeleteFromPoint, minValid,
                   appliedThrough, globalTimestamp, localOplog, applyState, recArg,
                   shutdownSignaled, slot>>
    /\ MainUnchanged

\* multiApply returning without the ON_BLOCK_EXIT join.
JoinApplyWorkers_noJoin ==
    /\ MainStep("ma_join", "setNewTimestamp")
    /\ pool' = SelectSeq(pool, NotDone)
    /\ pbwm' = FALSE
    /\ UNCHANGED <<batchVars, fatal, oplogDeleteFromPoint, minValid, appliedThrough,
                   globalTimestamp, localOplog, applyState, recArg, shutdownSignaled,
                   slot>>
    /\ MainUnchanged

\* ON_BLOCK_EXIT workerPool->join(), then multiApply returns ops.back()'s
\* op-time: parallel-batch-writer mode is released and the batch destroyed.
JoinApplyWorkers ==
    /\ MainStep("ma_join", "setNewTimestamp")
    /\ PoolJoined(pool)
    /\ pool' = SelectSeq(pool, NotDone)
    /\ pbwm' = FALSE
    /\ BatchState(<<>>)
    /\ UNCHANGED <<lastOpTimeInBatch, fatal, oplogDeleteFromPoint, minValid, appliedThrough,
                   globalTimestamp, localOplog, applyState, recArg, shutdownSignaled,
                   slot>>
    /\ MainUnchanged

\* setNewTimestamp(lastOpTimeInBatch.getTimestamp())
SetNewTimestamp ==
    /\ MainStep("setNewTimestamp", "setAppliedThrough")
    /\ globalTimestamp' = lastOpTimeInBatch
    /\ UNCHANGED <<batchVars, pool, pbwm, fatal, oplogDeleteFromPoint, minValid,
                   appliedThrough, localOplog, applyState, recArg, shutdownSignaled,
                   slot>>
    /\ MainUnchanged

\* StorageInterface::setAppliedThrough(txn, lastOpTimeInBatch), then the call of
\* finalizer->record(lastOpTimeInBatch).
SetAppliedThrough ==
    /\ MainStep("setAppliedThrough", "record")
    /\ appliedThrough' = lastOpTimeInBatch
    /\ recArg' = lastOpTimeInBatch
    /\ UNCHANGED <<batchVars, pool, pbwm, fatal, oplogDeleteFromPoint, minValid,
                   globalTimestamp, localOplog, applyState, shutdownSignaled, slot>>
    /\ MainUnchanged

\* oplogApplication returns: ~ApplyBatchFinalizerForJournal sets the shutdown
\* flag and notifies (the plain finalizer has nothing to do).
FinalizerShutdown ==
    /\ MainStep("dtor_finalizer", "dtor_join")
    /\ shutdownSignaled' = isDurable
    /\ UNCHANGED <<batchVars, pool, pbwm, fatal, oplogDeleteFromPoint, minValid,
                   appliedThrough, globalTimestamp, localOplog, applyState, recArg,
                   slot>>
    /\ MainUnchanged

\* _waiterThread.join()
FinalizerJoin ==
    /\ MainStep("dtor_join", "returned")
    /\ isDurable => waiterPc = "exit"
    /\ UNCHANGED <<batchVars, pool, pbwm, fatal, oplogDeleteFromPoint, minValid,
                   appliedThrough, globalTimestamp, localOplog, applyState, recArg,
                   shutdownSignaled, slot>>
    /\ MainUnchanged

\* ------------------------------------------- batches handed to the loop
\* The batcher's side of the handoff as the top-level loop sees it: a batch as
\* OpQueueBatcher::run publishes them (a command, an index build or the drained
\* sentinel alone; otherwise CRUD ops and noops), or the shutdown batch.
OpTemplates ==
    {MkEntry(op, ns, id, 1) : op \in {"i", "u"}, ns \in CrudNamespaces, id \in DocIds}
        \cup {MkEntry("d", "a.x", 1, 1), MkEntry("n", "a.x", 0, 1)}

StandAloneBatches ==
    {<<MkEntry("c", "a.$cmd", 0, 1)>>, <<MkEntry("i", "a.system.indexes", 0, 1)>>,
     <<Sentinel>>}

\* A batch large enough for scheduleWritesToOplog to use every pool thread.
BulkBatch == [i \in 1..(kMinOplogEntriesPerThread * numWriters) |-> MkEntry("n", "a.x", 0, 1)]

\* Longer batches over a core of templates: runs of inserts into one
\* collection (the input of insert grouping), several ops on one document and
\* ops on a second collection between them.
CoreTemplates ==
    {MkEntry("i", "a.x", 1, 1), MkEntry("i", "a.x", 2, 1), MkEntry("u", "a.x", 1, 1),
     MkEntry("u", "a.y", 1, 1)}

CoreBatches == UNION {[1..k -> CoreTemplates] : k \in 3..MaxCoreLen}

BatchShapes ==
    UNION {[1..k -> OpTemplates] : k \in 1..MaxBatchLen}
        \cup CoreBatches \cup StandAloneBatches \cup {BulkBatch}

\* The op-times of a batch: consecutive from t0 (the sentinel has none).
Stamp(b, t0) == [i \in DOMAIN b |-> IF b[i].raw THEN [b[i] EXCEPT !.ts = t0 + i - 1] ELSE b[i]]

RECURSIVE SumSizes(_)
SumSizes(b) == IF b = <<>> THEN 0 ELSE b[1].sz + SumSizes(Tail(b))

\* The top-level loop reads the slot only inside getNextBatch, so a batch
\* published while it is busy is seen exactly as one published when it returns
\* to getNextBatch: only the latter interleaving is generated.
SlotFree == slot.ents = <<>> /\ ~slot.shut /\ mainPc \in {"loop", "gnb_wait"}

ApplyEnvUnchanged ==
    UNCHANGED <<cfgVars, upstreamVars, hashVars, batchVars, markerVars, finVars, mainPc, pool,
                pbwm, fatal, localOplog, applyState>>

BatcherPublishes(b, t0) ==
    /\ fatal = ""
    /\ ~isDead
    /\ SlotFree
    /\ batchesDone < MaxBatches
    /\ slot' = [ents |-> Stamp(b, t0), bytes |-> SumSizes(b), shut |-> FALSE]
    /\ batchesDone' = batchesDone + 1
    /\ UNCHANGED isDead
    /\ ApplyEnvUnchanged

BatcherPublishesShutdown ==
    /\ fatal = ""
    /\ ~isDead
    /\ SlotFree
    /\ slot' = [EmptyQueue EXCEPT !.shut = TRUE]
    /\ isDead' = TRUE
    /\ UNCHANGED batchesDone
    /\ ApplyEnvUnchanged

\* ------------------------------------------------------------------- Spec
\* The upstream side at rest.
UpstreamIdle ==
    /\ netQueue = <<>>
    /\ netShutdown = FALSE
    /\ now = 0
    /\ slaveDelay = 0
    /\ rsSyncApplyStop = FALSE
    /\ bPc = "top"
    /\ bOps = EmptyQueue
    /\ limitOps = 1
    /\ limitBytes = 1
    /\ slaveDelayLatestTimestamp = -1
    /\ produced = <<>>
    /\ consumed = <<>>
    /\ publishedBatches = <<>>

CollectionPropertiesSet == [isCapped : BOOLEAN, collator : BOOLEAN]

\* The state in which oplogApplication starts: an idle pool, an empty handoff
\* slot, and progress markers left by earlier replication.
Init ==
    /\ supportsDocLocking \in BOOLEAN
    /\ isDurable = TRUE
    /\ numWriters \in 1..MaxWriters
    /\ catalog \in [{"a.x"} -> CollectionPropertiesSet]
    /\ lastApplied = MaxStart
    /\ lastDurable = lastApplied
    /\ appliedThrough = lastApplied
    /\ globalTimestamp = lastApplied
    /\ minValid = lastApplied
    /\ oplogDeleteFromPoint = NullOpTime
    /\ mainPc = "loop"
    /\ ops = <<>>
    /\ lastOpTimeInBatch = NullOpTime
    /\ isForCapped = <<>>
    /\ writerVectors = <<>>
    /\ fillIdx = 1
    /\ collCache = <<>>
    /\ nsHashMemo = <<>>
    /\ mixMemo = <<>>
    /\ pool = <<>>
    /\ pbwm = FALSE
    /\ fatal = ""
    /\ batchesDone = 0
    /\ localOplog = <<>>
    /\ applyState = <<>>
    /\ recArg = NullOpTime
    /\ latestOpTime = NullOpTime
    /\ shutdownSignaled = FALSE
    /\ waiterPc = IF isDurable THEN "wait" ELSE "none"
    /\ waiterOpTime = NullOpTime
    /\ slot = EmptyQueue
    /\ isDead = FALSE
    /\ callArgs = ValidCallArgs
    /\ drain = NoDrain
    /\ sa = NoSyncApply
    /\ isw = NoInitialSync
    /\ gmd = NoGetMissingDoc
    /\ UpstreamIdle

Next ==
    \/ \E b \in BatchShapes, t0 \in 1..(MaxStart + 1) : BatcherPublishes(b, t0)
    \/ BatcherPublishesShutdown
    \/ GetNextBatch
    \/ GetNextBatchWake
    \/ CheckOrder
    \/ \E primary \in BOOLEAN : MultiApplyEnter(primary)
    \/ SetOplogDeleteFromPoint
    \/ scheduleWritesToOplog
    \/ \E h1 \in HashVals, h2 \in HashVals : fillWriterVectors(h1, h2)
    \/ JoinOplogWriters
    \/ ClearOplogDeleteFromPoint
    \/ SetMinValid
    \/ applyOps
    \/ JoinApplyWorkers
    \/ SetNewTimestamp
    \/ SetAppliedThrough
    \/ RecordApplied("loop")
    \/ RecordNotify("loop")
    \/ FinalizerShutdown
    \/ FinalizerJoin
    \/ WaiterTake
    \/ WaiterDurable
    \/ WaiterExit
    \/ \E t \in DOMAIN pool : OplogWriterStart(t)
    \/ \E t \in DOMAIN pool : OplogWriterRun(t)
    \/ \E t \in DOMAIN pool : WorkerStart(t)
    \/ \E t \in DOMAIN pool : WorkerNext(t)
    \/ \E t \in DOMAIN pool, ok \in BOOLEAN : WorkerGroupReturn(t, ok)
    \/ \E t \in DOMAIN pool, ok \in BOOLEAN : WorkerSingleReturn(t, ok)
    \/ \E t \in DOMAIN pool : WorkerFinish(t)

Spec == Init /\ [][Next]_vars

\* ===================================================== claims under Spec
\* The writer slot an op of the batch was put in (0 before it is placed).
SlotOfOp(i) ==
    IF \E w \in DOMAIN writerVectors : \E k \in DOMAIN writerVectors[w] : writerVectors[w][k] = i
    THEN CHOOSE w \in DOMAIN writerVectors :
            \E k \in DOMAIN writerVectors[w] : writerVectors[w][k] = i
    ELSE 0

SameDocument(i, j) ==
    /\ isCrudOpType(ops[i].op)
    /\ isCrudOpType(ops[j].op)
    /\ ops[i].ns = ops[j].ns
    /\ ops[i].id = ops[j].id

\* i and j are handed to storage by one grouped-insert call, i before j.
InOneCall(i, j) ==
    \E t \in DOMAIN pool :
        \E a, b \in DOMAIN pool[t].cur :
            a < b /\ pool[t].cur[a] = i /\ pool[t].cur[b] = j

AllOplogWritten == \A i \in DOMAIN localOplog : localOplog[i] = 1
NoneApplied == \A i \in DOMAIN applyState : applyState[i] = "none"
AllApplied == \A i \in DOMAIN applyState : applyState[i] = "done"
ApplyTasks == {t \in DOMAIN pool : pool[t].kind = "apply"}
OplogTasks == {t \in DOMAIN pool : pool[t].kind = "oplog"}

RestrictedCollection(ns) ==
    getCollectionPropertiesImpl(ns).isCapped \/ getCollectionPropertiesImpl(ns).collator

\* C1: of two CRUD ops of a batch on the same document (same ns and _id), the
\* later one is not handed to syncApply before the apply of the earlier one has
\* returned successfully, in every interleaving of the writer threads; two
\* such ops that travel in one grouped insert are in it in batch order.
C1_SameDocumentInOrder ==
    \A i \in DOMAIN ops : \A j \in DOMAIN ops :
        (i < j /\ SameDocument(i, j) /\ applyState[j] # "none")
            => (applyState[i] = "done" \/ InOneCall(i, j))

\* Two pool threads are applying, and an op is being applied after an earlier op
\* on the same document was applied.
C1_Witness ==
    /\ Cardinality({t \in ApplyTasks : pool[t].st = "running"}) = 2
    /\ \E i \in DOMAIN ops : \E j \in DOMAIN ops :
          /\ i < j /\ SameDocument(i, j)
          /\ ops[i].op # ops[j].op
          /\ ops[i].ns = "a.x" /\ ~RestrictedCollection("a.x")
          /\ applyState[i] = "done" /\ applyState[j] = "inflight"

InMultiApply ==
    mainPc \in {"multiApply", "ma_setDeleteFrom", "ma_schedule", "ma_fill",
                "ma_clearDeleteFrom", "ma_setMinValid", "ma_applyOps", "ma_join"}

\* C4: a batch is inside multiApply only if its first op-time is greater than
\* the node's last-applied op-time; the step that ends in OplogOutOfOrder finds
\* first <= last-applied and changes no marker, writes nothing to the oplog and
\* applies nothing; and nothing happens after a fatal error.
C4_OrderChecked ==
    /\ [](InMultiApply => ops[1].ts > lastApplied)
    /\ [](fatal = "OplogOutOfOrder" =>
            (NoneApplied /\ pool = <<>> /\ ~pbwm
             /\ \A i \in DOMAIN localOplog : localOplog[i] = 0))
    /\ [][(fatal' = "OplogOutOfOrder" /\ fatal = "") =>
            (ops[1].ts <= lastApplied /\ UNCHANGED <<markerVars, localOplog, applyState>>)]_vars
    /\ [][fatal = ""]_vars

\* A batch whose first op-time repeats the last-applied op-time was refused.
C4_Witness ==
    /\ fatal = "OplogOutOfOrder"
    /\ ops[1].ts = lastApplied
    /\ Len(ops) > 1

\* C5: two CRUD ops of a batch with the same (ns, _id) are put in the same writer
\* slot, for every pool size, engine and collection properties.
C5_SameDocumentSameSlot ==
    \A i \in DOMAIN ops : \A j \in DOMAIN ops :
        (i < fillIdx /\ j < fillIdx /\ SameDocument(i, j)) => SlotOfOp(i) = SlotOfOp(j)

\* With id hashing in force, two ops on one document share a slot while an op
\* on another document of the collection went to a different slot.
C5_Witness ==
    /\ supportsDocLocking /\ numWriters > 1
    /\ \E i \in DOMAIN ops : \E j \in DOMAIN ops : \E k \in DOMAIN ops :
          /\ i < j /\ j < fillIdx /\ k < fillIdx
          /\ SameDocument(i, j) /\ ops[i].op # ops[j].op
          /\ ops[k].ns = ops[i].ns /\ ops[k].id # ops[i].id
          /\ SlotOfOp(k) # SlotOfOp(i)

\* C6: two ops of a batch on the same capped collection, or on the same
\* collection with a non-simple default collation, are put in the same writer
\* slot whatever their document ids.
C6_RestrictedCollectionOneSlot ==
    \A i \in DOMAIN ops : \A j \in DOMAIN ops :
        (i < fillIdx /\ j < fillIdx /\ ops[i].ns = ops[j].ns
            /\ RestrictedCollection(ops[i].ns))
        => SlotOfOp(i) = SlotOfOp(j)

\* Ops on different documents of a capped collection were placed under a
\* doc-locking engine with several writers, while the hash does spread ops.
C6_Witness ==
    /\ supportsDocLocking /\ numWriters > 1
    /\ catalog["a.x"].isCapped /\ ~catalog["a.x"].collator
    /\ \E i \in DOMAIN ops : \E j \in DOMAIN ops :
          /\ i < j /\ j < fillIdx
          /\ ops[i].ns = "a.x" /\ ops[j].ns = "a.x"
          /\ isCrudOpType(ops[i].op) /\ isCrudOpType(ops[j].op)
          /\ ops[i].id # ops[j].id
          /\ isForCapped[i] # isForCapped[j]

C8_AppliedThroughAfterApply ==
    [][appliedThrough' # appliedThrough =>
        (/\ mainPc = "setAppliedThrough"
         /\ pool = <<>>
         /\ applyState # <<>> /\ AllApplied
         /\ appliedThrough' = lastOpTimeInBatch)]_vars

\* appliedThrough was advanced past a batch that two workers applied.
C8_Witness ==
    /\ appliedThrough > MaxStart
    /\ Len(applyState) > 1
    /\ mainPc = "record"
    /\ numWriters > 1

\* C9: minValid changes only when every oplog writer task has completed, with
\* oplogDeleteFromPoint already cleared and no apply worker scheduled, and
\* then is at least the batch's last op-time; while apply workers exist the
\* marker is clear and minValid is at least the last op-time.
C9_MinValidAfterOplogWrite ==
    /\ [][minValid' # minValid =>
            (/\ AllOplogWritten /\ pool = <<>> /\ NoneApplied
             /\ oplogDeleteFromPoint = NullOpTime
             /\ minValid' >= ops[Len(ops)].ts)]_vars
    /\ [](ApplyTasks # {} =>
            (oplogDeleteFromPoint = NullOpTime /\ minValid >= ops[Len(ops)].ts))

\* minValid was raised to the last op-time of a batch written by several tasks.
C9_Witness ==
    /\ mainPc = "ma_applyOps"
    /\ minValid = ops[Len(ops)].ts
    /\ minValid > MaxStart
    /\ Len(ops) >= 2 * kMinOplogEntriesPerThread

\* ============================================================ the batcher
\* The upstream queue, OpQueueBatcher::run and tryPopAndWaitForMore, with the
\* top-level loop reduced to its getNextBatch calls.
MaxFeed == 3
MaxOpsLimit == 2
MaxBytesLimit == 3
SlaveDelaySecs == 1

\* An oplog version other than the supported one.
UnsupportedVersion == 99

\* entry.version: 0 stands for an absent field (eoo).
curVersion(entry) == IF entry.ver = 0 THEN 1 ELSE entry.ver

\* Sentinel, command or index build: ops that must be processed one at a time.
MustStandAlone(entry) ==
    \/ ~entry.raw
    \/ entry.op = "c"
    \/ (entry.ns # "" /\ IsSystemIndexes(entry.ns))

\* OpQueue::emplace_back and OpQueue::pop_back keep the byte count.
emplace_back(q, e) == [q EXCEPT !.ents = Append(q.ents, e), !.bytes = q.bytes + e.sz]
pop_back(q) ==
    [q EXCEPT !.ents = SubSeq(q.ents, 1, Len(q.ents) - 1),
              !.bytes = q.bytes - q.ents[Len(q.ents)].sz]

\* What the upstream producer may push: small and large inserts, a command, an
\* index build, the drained sentinel, and entries of another oplog version.
FeedTemplates ==
    {MkEntry("i", "a.x", 1, 1), MkEntry("i", "a.x", 2, 2), MkEntry("c", "a.$cmd", 0, 1),
     MkEntry("i", "a.system.indexes", 0, 1), Sentinel,
     [MkEntry("i", "a.x", 1, 1) EXCEPT !.ver = 0],
     [MkEntry("i", "a.x", 1, 1) EXCEPT !.ver = UnsupportedVersion]}

UpstreamUnchanged ==
    UNCHANGED <<cfgVars, hashVars, markerVars, batchVars, finVars, mainPc, pool, pbwm,
                localOplog, applyState, batchesDone>>

\* BackgroundSync pushes one fetched entry.
Produce(tpl) ==
    /\ fatal = ""
    /\ ~netShutdown
    /\ Len(produced) < MaxFeed
    /\ LET e == IF tpl.raw THEN [tpl EXCEPT !.ts = Len(produced) + 1] ELSE tpl
       IN /\ netQueue' = Append(netQueue, e)
          /\ produced' = Append(produced, e)
    /\ UNCHANGED <<netShutdown, now, slaveDelay, rsSyncApplyStop, batcherVars,
                   publishedBatches, slot, isDead, fatal>>
    /\ UpstreamUnchanged

\* The upstream queue is shut down.
NetworkShutdown ==
    /\ fatal = ""
    /\ ~netShutdown
    /\ netShutdown' = TRUE
    /\ UNCHANGED <<netQueue, now, slaveDelay, rsSyncApplyStop, produced, batcherVars,
                   publishedBatches, slot, isDead, fatal>>
    /\ UpstreamUnchanged

\* The fast clock advances (it is read only under a slave delay).
Tick ==
    /\ fatal = ""
    /\ slaveDelay > 0
    /\ now < slaveDelay + MaxFeed
    /\ now' = now + 1
    /\ UNCHANGED <<netQueue, netShutdown, slaveDelay, rsSyncApplyStop, produced,
                   batcherVars, publishedBatches, slot, isDead, fatal>>
    /\ UpstreamUnchanged

\* A test turns the rsSyncApplyStop fail point on or off.
SetFailPoint(on) ==
    /\ fatal = ""
    /\ rsSyncApplyStop # on
    /\ rsSyncApplyStop' = on
    /\ UNCHANGED <<netQueue, netShutdown, now, slaveDelay, produced, batcherVars,
                   publishedBatches, slot, isDead, fatal>>
    /\ UpstreamUnchanged

\* --------------------------------------------------- tryPopAndWaitForMore
\* Each operator gives the batch under assembly after the branch and whether
\* the branch consumed the peeked entry from the upstream queue.

\* A stand-alone branch that keeps the entry in whatever batch it arrived in.
StandAloneBranch_joins(q) == [q |-> q, consume |-> TRUE]

\* The must-stand-alone branch: alone in the batch the entry is consumed,
\* otherwise it is taken back out and left in the upstream queue.
StandAloneBranch(q) ==
    IF Len(q.ents) = 1
    THEN [q |-> q, consume |-> TRUE]
    ELSE [q |-> pop_back(q), consume |-> FALSE]

\* A slave-delay branch that consumes the entry it takes back out.
Withhold_consumes(q) == [q |-> pop_back(q), consume |-> TRUE]

\* The slave-delay branch: the entry is too recent and is not done yet.
Withhold(q) == [q |-> pop_back(q), consume |-> FALSE]

\* A byte limit that is never reached.
OverByteLimit_never(q, op) == FALSE

\* !ops->empty() && (ops->getBytes() + size_t(op.objsize())) > limits.bytes
OverByteLimit(q, op) == q.ents # <<>> /\ q.bytes + op.sz > limitBytes

\* A version check that lets every version through.
VersionMismatch_never(op) == FALSE

\* The oplog version check on a non-sentinel entry (fassert 18820).
VersionMismatch(op) == op.raw /\ curVersion(op) # kOplogVersion

\* A slave delay that withholds nothing.
TooRecent_never(op) == FALSE

\* limits.slaveDelayLatestTimestamp &&
\*     entry.ts.timestampTime() > *limits.slaveDelayLatestTimestamp
TooRecent(op) == slaveDelayLatestTimestamp >= 0 /\ op.ts > slaveDelayLatestTimestamp

\* A count limit that ends the batch one entry late.
ReachedOpsLimit_late(q) == Len(q.ents) > limitOps

\* ops->getCount() >= limits.ops
ReachedOpsLimit(q) == Len(q.ents) >= limitOps

\* A failed peek that never looks at the queue's shutdown state.
PeekFailed_ignoresShutdown(q, inShutdown) == q

\* Nothing to peek: an empty batch gets the mustShutdown flag when the
\* upstream queue is in shutdown (otherwise waitForMore blocks up to a second).
PeekFailed(q, inShutdown) ==
    IF q.ents = <<>> /\ inShutdown THEN [q EXCEPT !.shut = TRUE] ELSE q

\* One call of tryPopAndWaitForMore(ops, limits) against the upstream queue nq:
\* the batch under assembly it leaves, whether it consumed the peeked entry,
\* its return value and the fassert it died on ("" for none).
tryPopAndWaitForMore(q, nq, inShutdown) ==
    IF nq = <<>>
    THEN \* peek failed
         [q |-> PeekFailed(q, inShutdown), consume |-> FALSE, ret |-> TRUE,
          fatal |-> ""]
    ELSE LET op == Head(nq) IN
    IF OverByteLimit(q, op)
    THEN [q |-> q, consume |-> FALSE, ret |-> TRUE, fatal |-> ""]
    ELSE LET q1 == emplace_back(q, op) IN
    IF VersionMismatch(op)
    THEN [q |-> q1, consume |-> FALSE, ret |-> TRUE, fatal |-> "18820"]
    ELSE IF TooRecent(op)
    THEN [q |-> Withhold(q1).q, consume |-> Withhold(q1).consume, ret |-> TRUE,
          fatal |-> ""]
    ELSE IF MustStandAlone(op)
    THEN [q |-> StandAloneBranch(q1).q, consume |-> StandAloneBranch(q1).consume,
          ret |-> TRUE, fatal |-> ""]
    ELSE [q |-> q1, consume |-> TRUE, ret |-> ReachedOpsLimit(q1), fatal |-> ""]

\* ---------------------------------------------------- OpQueueBatcher::run
BatcherUnchanged ==
    /\ UNCHANGED <<netShutdown, now, slaveDelay, rsSyncApplyStop, produced, limitBytes>>
    /\ UpstreamUnchanged

\* Top of the loop: the slave-delay cutoff and the operation limit are read
\* once per batch, and the batch under assembly starts empty.
BatcherNewBatch(opsLimit) ==
    /\ fatal = ""
    /\ bPc = "top"
    /\ slaveDelayLatestTimestamp' = IF slaveDelay > 0 THEN now - slaveDelay ELSE -1
    /\ limitOps' = opsLimit
    /\ bOps' = EmptyQueue
    /\ bPc' = "pop"
    /\ UNCHANGED <<netQueue, consumed, publishedBatches, slot, isDead, fatal>>
    /\ BatcherUnchanged

\* while (!tryPopAndWaitForMore(...)) {}: one call.
BatcherTryPop ==
    /\ fatal = ""
    /\ bPc = "pop"
    /\ LET r == tryPopAndWaitForMore(bOps, netQueue, netShutdown) IN
        /\ bOps' = r.q
        /\ fatal' = r.fatal
        /\ IF r.consume
           THEN netQueue' = Tail(netQueue) /\ consumed' = Append(consumed, Head(netQueue))
           ELSE UNCHANGED <<netQueue, consumed>>
        /\ bPc' = IF r.ret /\ r.fatal = "" THEN "failpoint" ELSE "pop"
    /\ UNCHANGED <<limitOps, slaveDelayLatestTimestamp, publishedBatches, slot, isDead>>
    /\ BatcherUnchanged

\* while (MONGO_FAIL_POINT(rsSyncApplyStop)): the batch is held back while the
\* fail point is on (a clean shutdown meanwhile is fatal); after it an empty
\* batch without the shutdown flag is not emitted.
BatcherFailPoint ==
    /\ fatal = ""
    /\ bPc = "failpoint"
    /\ IF rsSyncApplyStop
       THEN /\ netShutdown
            /\ fatal' = "40304"
            /\ UNCHANGED bPc
       ELSE /\ bPc' = IF bOps.ents = <<>> /\ ~bOps.shut THEN "top" ELSE "publish"
            /\ UNCHANGED fatal
    /\ UNCHANGED <<netQueue, consumed, bOps, limitOps, slaveDelayLatestTimestamp,
                   publishedBatches, slot, isDead>>
    /\ BatcherUnchanged

\* A batcher thread that ends on the shutdown batch without setting _isDead.
BatcherPublish_notDead ==
    /\ fatal = ""
    /\ bPc = "publish"
    /\ slot.ents = <<>>
    /\ slot' = bOps
    /\ publishedBatches' =
          IF bOps.ents = <<>> THEN publishedBatches ELSE Append(publishedBatches, bOps.ents)
    /\ bOps' = EmptyQueue
    /\ bPc' = IF bOps.shut THEN "exit" ELSE "top"
    /\ UNCHANGED <<isDead, netQueue, consumed, limitOps, slaveDelayLatestTimestamp, fatal>>
    /\ BatcherUnchanged

\* A publish that does not wait for the previous batch to be taken.
BatcherPublish_overwrites ==
    /\ fatal = ""
    /\ bPc = "publish"
    /\ slot' = bOps
    /\ publishedBatches' =
          IF bOps.ents = <<>> THEN publishedBatches ELSE Append(publishedBatches, bOps.ents)
    /\ bOps' = EmptyQueue
    /\ IF bOps.shut
       THEN isDead' = TRUE /\ bPc' = "exit"
       ELSE bPc' = "top" /\ UNCHANGED isDead
    /\ UNCHANGED <<netQueue, consumed, limitOps, slaveDelayLatestTimestamp, fatal>>
    /\ BatcherUnchanged

\* Block until the previous batch has been taken, then publish; the shutdown
\* batch ends the thread.
BatcherPublish ==
    /\ fatal = ""
    /\ bPc = "publish"
    /\ slot.ents = <<>>
    /\ slot' = bOps
    /\ publishedBatches' =
          IF bOps.ents = <<>> THEN publishedBatches ELSE Append(publishedBatches, bOps.ents)
    /\ bOps' = EmptyQueue
    /\ IF bOps.shut
       THEN isDead' = TRUE /\ bPc' = "exit"
       ELSE bPc' = "top" /\ UNCHANGED isDead
    /\ UNCHANGED <<netQueue, consumed, limitOps, slaveDelayLatestTimestamp, fatal>>
    /\ BatcherUnchanged

\* The rest of the top-level loop's iteration, once it holds a batch.
BatchHandedOver ==
    /\ fatal = ""
    /\ mainPc = "checkOrder"
    /\ mainPc' = "loop"
    /\ BatchState(<<>>)
    /\ UNCHANGED <<lastOpTimeInBatch, pool, pbwm, fatal, oplogDeleteFromPoint, minValid,
                   appliedThrough, globalTimestamp, localOplog, applyState, recArg,
                   shutdownSignaled, slot>>
    /\ MainUnchanged

\* ~OpQueueBatcher, run when oplogApplication has returned and its finalizer
\* is destroyed: invariant(_isDead), then _thread.join().
BatcherDestroy ==
    /\ fatal = ""
    /\ mainPc = "returned"
    /\ IF ~isDead
       THEN fatal' = "invariant(_isDead)" /\ UNCHANGED mainPc
       ELSE /\ bPc = "exit"
            /\ mainPc' = "batcherDestroyed"
            /\ UNCHANGED fatal
    /\ UNCHANGED <<batchVars, pool, pbwm, oplogDeleteFromPoint, minValid, appliedThrough,
                   globalTimestamp, localOplog, applyState, recArg, shutdownSignaled, slot>>
    /\ MainUnchanged

InitBatcher ==
    /\ supportsDocLocking = TRUE
    /\ isDurable = TRUE
    /\ numWriters = 1
    /\ catalog = [ns \in {"a.x"} |-> DefaultProperties]
    /\ mainPc = "loop"
    /\ ops = <<>>
    /\ lastOpTimeInBatch = 0
    /\ isForCapped = <<>>
    /\ writerVectors = <<>>
    /\ fillIdx = 1
    /\ collCache = <<>>
    /\ nsHashMemo = <<>>
    /\ mixMemo = <<>>
    /\ pool = <<>>
    /\ pbwm = FALSE
    /\ fatal = ""
    /\ batchesDone = 0
    /\ oplogDeleteFromPoint = 0
    /\ minValid = 0
    /\ appliedThrough = 0
    /\ globalTimestamp = 0
    /\ localOplog = <<>>
    /\ applyState = <<>>
    /\ lastApplied = 0
    /\ lastDurable = 0
    /\ recArg = 0
    /\ latestOpTime = 0
    /\ shutdownSignaled = FALSE
    /\ waiterPc = "wait"
    /\ waiterOpTime = 0
    /\ slot = EmptyQueue
    /\ isDead = FALSE
    /\ callArgs = ValidCallArgs
    /\ drain = NoDrain
    /\ sa = NoSyncApply
    /\ isw = NoInitialSync
    /\ gmd = NoGetMissingDoc
    /\ netQueue = <<>>
    /\ netShutdown = FALSE
    /\ slaveDelay \in {0, SlaveDelaySecs}
    /\ now = slaveDelay
    /\ rsSyncApplyStop = FALSE
    /\ bPc = "top"
    /\ bOps = EmptyQueue
    /\ limitOps = 1
    /\ limitBytes \in 1..MaxBytesLimit
    /\ slaveDelayLatestTimestamp = -1
    /\ produced = <<>>
    /\ consumed = <<>>
    /\ publishedBatches = <<>>

NextBatcher ==
    \/ \E tpl \in FeedTemplates : Produce(tpl)
    \/ NetworkShutdown
    \/ Tick
    \/ \E on \in BOOLEAN : SetFailPoint(on)
    \/ \E opsLimit \in 1..MaxOpsLimit : BatcherNewBatch(opsLimit)
    \/ BatcherTryPop
    \/ BatcherFailPoint
    \/ BatcherPublish
    \/ GetNextBatch
    \/ GetNextBatchWake
    \/ BatchHandedOver
    \/ FinalizerShutdown
    \/ WaiterExit
    \/ FinalizerJoin
    \/ BatcherDestroy

SpecBatcher == InitBatcher /\ [][NextBatcher]_vars

\* ============================================== claims under SpecBatcher
RECURSIVE Flatten(_)
Flatten(batches) == IF batches = <<>> THEN <<>> ELSE Head(batches) \o Flatten(Tail(batches))

HasStandAlone(b) == \E i \in DOMAIN b : MustStandAlone(b[i])

\* The feed of the scenario: an insert, a command, an insert.
ScenarioFeed ==
    /\ Len(produced) = 3
    /\ produced[1].op = "i" /\ ~MustStandAlone(produced[1])
    /\ produced[2].op = "c"
    /\ produced[3].op = "i" /\ ~MustStandAlone(produced[3])

\* C2: a batch that holds a command, an index build or the drained sentinel
\* holds exactly that one entry, whether published, in the handoff slot or
\* taken by the top-level loop; the loop's invariant that a sentinel batch has
\* one entry never fails; and the feed insert, command, insert, once fully
\* consumed and published, has been published as three one-entry batches.
C2_StandAloneBatchHasOneEntry ==
    /\ \A k \in DOMAIN publishedBatches :
          HasStandAlone(publishedBatches[k]) => Len(publishedBatches[k]) = 1
    /\ HasStandAlone(slot.ents) => Len(slot.ents) = 1
    /\ HasStandAlone(ops) => Len(ops) = 1
    /\ fatal # "invariant"
    /\ (ScenarioFeed /\ Len(consumed) = 3 /\ bOps.ents = <<>>)
          => publishedBatches = <<<<produced[1]>>, <<produced[2]>>, <<produced[3]>>>>

C2_Witness ==
    /\ ScenarioFeed
    /\ Len(publishedBatches) = 3
    /\ HasStandAlone(publishedBatches[2])
    /\ slot.ents = <<>>
    /\ mainPc = "loop"

\* C3: the published batches followed by the batch under assembly are exactly
\* the entries consumed from the upstream queue, in order, and the consumed
\* entries followed by the queue's content are exactly the entries produced:
\* nothing is lost, duplicated or reordered, and an entry taken back out of a
\* batch is still at the head of the queue. The handoff slot holds the batch
\* published last.
C3_PublishedInSourceOrder ==
    /\ fatal # "18820" => Flatten(publishedBatches) \o bOps.ents = consumed
    /\ consumed \o netQueue = produced
    /\ slot.ents # <<>> => slot.ents = publishedBatches[Len(publishedBatches)]

\* An entry withheld by the slave delay ended a non-empty batch, after an
\* earlier batch was published.
C3_Witness ==
    /\ bPc = "failpoint"
    /\ slaveDelayLatestTimestamp >= 0
    /\ netQueue # <<>>
    /\ Head(netQueue).ts > slaveDelayLatestTimestamp
    /\ bOps.ents # <<>>
    /\ publishedBatches # <<>>

Max(a, b) == IF a >= b THEN a ELSE b

\* The batcher thread takes a step (the producer and the clock do not).
BatcherActs == bPc' # bPc \/ bOps' # bOps \/ consumed' # consumed

\* C12: every published batch B, and the batch under assembly, has a byte
\* count of at most max(bytesLimit, size of its first op), the OpQueue's byte
\* count being the sum of its entries' sizes; and a call that peeks an entry
\* that would push a non-empty batch over the limit ends the batch, leaving
\* the batch and the upstream queue as they were.
C12_ByteLimit ==
    /\ [](/\ \A k \in DOMAIN publishedBatches :
                SumSizes(publishedBatches[k])
                    <= Max(limitBytes, publishedBatches[k][1].sz)
          /\ bOps.bytes = SumSizes(bOps.ents)
          /\ slot.bytes = SumSizes(slot.ents)
          /\ bOps.ents # <<>> => bOps.bytes <= Max(limitBytes, bOps.ents[1].sz))
    /\ [][(/\ bPc = "pop"
           /\ netQueue # <<>>
           /\ bOps.ents # <<>>
           /\ bOps.bytes + Head(netQueue).sz > limitBytes
           /\ BatcherActs)
            => /\ bOps' = bOps
               /\ consumed' = consumed
               /\ Head(netQueue') = Head(netQueue)
               /\ bPc' = "failpoint"]_vars

\* A single op larger than the limit was published alone, and a later entry
\* has just ended a non-empty batch because of the byte limit.
C12_Witness ==
    /\ \E k \in DOMAIN publishedBatches :
          Len(publishedBatches[k]) = 1 /\ publishedBatches[k][1].sz > limitBytes
    /\ bPc = "failpoint"
    /\ netQueue # <<>>
    /\ bOps.ents # <<>>
    /\ bOps.bytes + Head(netQueue).sz > limitBytes
    /\ ~MustStandAlone(Head(netQueue))

C14_SlaveDelay ==
    /\ []((slaveDelay > 0 /\ fatal # "18820" /\ bPc \in {"pop", "failpoint", "publish"})
            => /\ slaveDelayLatestTimestamp <= now - slaveDelay
               /\ \A i \in DOMAIN bOps.ents : bOps.ents[i].ts <= slaveDelayLatestTimestamp)
    /\ [][(slaveDelay > 0 /\ bPc = "publish" /\ bPc' # "publish")
            => \A i \in DOMAIN slot'.ents : slot'.ents[i].ts <= now - slaveDelay]_vars
    /\ [][(/\ bPc = "pop"
           /\ netQueue # <<>>
           /\ ~OverByteLimit(bOps, Head(netQueue))
           /\ ~VersionMismatch(Head(netQueue))
           /\ slaveDelayLatestTimestamp >= 0
           /\ Head(netQueue).ts > slaveDelayLatestTimestamp
           /\ BatcherActs)
            => /\ bOps' = bOps
               /\ consumed' = consumed
               /\ Head(netQueue') = Head(netQueue)
               /\ bPc' = "failpoint"]_vars

\* After a batch was published under a slave delay, the next entry is too
\* recent: the call has left an empty batch and the entry in the queue.
C14_Witness ==
    /\ slaveDelay > 0
    /\ publishedBatches # <<>>
    /\ bPc = "failpoint"
    /\ bOps.ents = <<>>
    /\ netQueue # <<>>
    /\ Head(netQueue).raw
    /\ Head(netQueue).ts > slaveDelayLatestTimestamp

SupportedVersion(e) == e.raw => curVersion(e) = kOplogVersion

\* C15: every non-sentinel entry consumed, in the handoff slot or in a
\* published batch has the supported oplog version, an absent version
\* counting as 1; the call that parses an entry of another version is fatal
\* (fassert 18820) and neither consumes the entry nor publishes anything, so
\* in the fatal state the entry is still at the head of the upstream queue.
C15_VersionChecked ==
    /\ [](/\ \A i \in DOMAIN consumed : SupportedVersion(consumed[i])
          /\ \A i \in DOMAIN slot.ents : SupportedVersion(slot.ents[i])
          /\ \A k \in DOMAIN publishedBatches : \A i \in DOMAIN publishedBatches[k] :
                SupportedVersion(publishedBatches[k][i])
          /\ fatal = "18820" => (netQueue # <<>> /\ ~SupportedVersion(Head(netQueue))))
    /\ [][(/\ bPc = "pop"
           /\ netQueue # <<>>
           /\ ~OverByteLimit(bOps, Head(netQueue))
           /\ ~SupportedVersion(Head(netQueue))
           /\ BatcherActs)
            => /\ fatal' = "18820"
               /\ consumed' = consumed
               /\ netQueue' = netQueue
               /\ publishedBatches' = publishedBatches
               /\ slot' = slot]_vars

\* The process died on an entry without a version field, after a batch of
\* supported entries had been published.
C15_Witness ==
    /\ fatal = "18820"
    /\ publishedBatches # <<>>
    /\ Head(netQueue).ver = 0

\* ------------------------------------------------ the batcher, scheduled
\* The batcher thread and the top-level loop are threads of their own and
\* none of their steps waits for ever once it can be taken: the waits of
\* getNextBatch and waitForMore time out, and a taken slot is signalled.
BatcherFairness ==
    /\ WF_vars(\E opsLimit \in 1..MaxOpsLimit : BatcherNewBatch(opsLimit))
    /\ WF_vars(BatcherTryPop)
    /\ WF_vars(BatcherFailPoint)
    /\ WF_vars(BatcherPublish)
    /\ WF_vars(GetNextBatch)
    /\ WF_vars(GetNextBatchWake)
    /\ WF_vars(BatchHandedOver)

\* The entries still fed when the question is how the threads end: inserts
\* of both sizes and a command.
ShutdownFeed ==
    {MkEntry("i", "a.x", 1, 1), MkEntry("i", "a.x", 2, 2), MkEntry("c", "a.$cmd", 0, 1)}

NextShutdown ==
    \/ \E tpl \in ShutdownFeed : Produce(tpl)
    \/ NetworkShutdown
    \/ Tick
    \/ \E on \in BOOLEAN : SetFailPoint(on)
    \/ \E opsLimit \in 1..MaxOpsLimit : BatcherNewBatch(opsLimit)
    \/ BatcherTryPop
    \/ BatcherFailPoint
    \/ BatcherPublish
    \/ GetNextBatch
    \/ GetNextBatchWake
    \/ BatchHandedOver

SpecBatcherFair == InitBatcher /\ [][NextShutdown]_vars /\ BatcherFairness

\* The top-level loop has seen the shutdown batch and left its loop.
LoopReturned == mainPc = "dtor_finalizer"

\* C18: once the upstream queue is in shutdown and empty with the fail point
\* off, the batcher eventually publishes the mustShutdown batch and ends and
\* the top-level loop eventually takes it and returns (unless the fail point
\* is turned on meanwhile); and when the batcher has ended, every entry
\* produced has been published, in order, before the mustShutdown batch.
C18_ShutdownPropagates ==
    /\ (netShutdown /\ netQueue = <<>> /\ ~rsSyncApplyStop)
          ~> ((isDead /\ bPc = "exit" /\ LoopReturned) \/ rsSyncApplyStop \/ fatal # "")
    /\ [](isDead => /\ bPc = "exit"
                    /\ netShutdown
                    /\ netQueue = <<>>
                    /\ Flatten(publishedBatches) = produced)
    /\ [](LoopReturned => isDead)
    /\ [](slot.shut => (slot.ents = <<>> /\ isDead))

\* Shutdown came with entries still in the queue; they were published, then
\* the mustShutdown batch, and the loop has returned.
C18_Witness ==
    /\ LoopReturned
    /\ isDead
    /\ Len(publishedBatches) >= 2
    /\ Len(produced) = MaxFeed

\* ========================================================== the finalizer
\* Either finalizer variant under any sequence of record(opTime) calls, with
\* the journal waiter thread, up to the finalizer's destruction.
MaxRecordCalls == 3
MaxOpTime == 3

\* The owner of the finalizer calls record(opTime).
FinalizerCall(opTime) ==
    /\ fatal = ""
    /\ mainPc = "fin_idle"
    /\ batchesDone < MaxRecordCalls
    /\ batchesDone' = batchesDone + 1
    /\ recArg' = opTime
    /\ mainPc' = "record"
    /\ UNCHANGED <<cfgVars, upstreamVars, hashVars, batchVars, markerVars, pool, pbwm,
                   fatal, localOplog, applyState, latestOpTime, shutdownSignaled,
                   waiterPc, waiterOpTime, slot, isDead>>

\* The owner lets go of the finalizer.
FinalizerDestroy ==
    /\ MainStep("fin_idle", "dtor_finalizer")
    /\ UNCHANGED <<batchVars, pool, pbwm, fatal, oplogDeleteFromPoint, minValid,
                   appliedThrough, globalTimestamp, localOplog, applyState, recArg,
                   shutdownSignaled, slot>>
    /\ MainUnchanged

InitFinalizer ==
    /\ supportsDocLocking = TRUE
    /\ isDurable \in BOOLEAN
    /\ numWriters = 1
    /\ catalog = [ns \in {"a.x"} |-> DefaultProperties]
    /\ mainPc = "fin_idle"
    /\ ops = <<>>
    /\ lastOpTimeInBatch = NullOpTime
    /\ isForCapped = <<>>
    /\ writerVectors = <<>>
    /\ fillIdx = 1
    /\ collCache = <<>>
    /\ nsHashMemo = <<>>
    /\ mixMemo = <<>>
    /\ pool = <<>>
    /\ pbwm = FALSE
    /\ fatal = ""
    /\ batchesDone = 0
    /\ oplogDeleteFromPoint = NullOpTime
    /\ minValid = NullOpTime
    /\ appliedThrough = NullOpTime
    /\ globalTimestamp = NullOpTime
    /\ localOplog = <<>>
    /\ applyState = <<>>
    /\ lastApplied \in 0..MaxOpTime
    /\ lastDurable \in 0..lastApplied
    /\ recArg = NullOpTime
    /\ latestOpTime = NullOpTime
    /\ shutdownSignaled = FALSE
    /\ waiterPc = IF isDurable THEN "wait" ELSE "none"
    /\ waiterOpTime = NullOpTime
    /\ slot = EmptyQueue
    /\ isDead = FALSE
    /\ callArgs = ValidCallArgs
    /\ drain = NoDrain
    /\ sa = NoSyncApply
    /\ isw = NoInitialSync
    /\ gmd = NoGetMissingDoc
    /\ UpstreamIdle

NextFinalizer ==
    \/ \E opTime \in 1..MaxOpTime : FinalizerCall(opTime)
    \/ RecordApplied("fin_idle")
    \/ RecordNotify("fin_idle")
    \/ WaiterTake
    \/ WaiterDurable
    \/ WaiterExit
    \/ FinalizerDestroy
    \/ FinalizerShutdown
    \/ FinalizerJoin

SpecFinalizer == InitFinalizer /\ [][NextFinalizer]_vars

\* ============================================ claims under SpecFinalizer
\* C10: over any sequence of record(opTime) calls on either finalizer variant
\* and any interleaving with the journal waiter, the published last-applied
\* and last-durable op-times never decrease, and a publish (by record, or by
\* the waiter after the flush) of an op-time not greater than the published
\* value leaves that value unchanged.
C10_ForwardOnlyPublish ==
    [][/\ lastApplied' >= lastApplied
       /\ lastDurable' >= lastDurable
       /\ (mainPc = "record" /\ mainPc' # "record" /\ recArg <= lastApplied)
             => lastApplied' = lastApplied
       /\ (waiterPc = "flush" /\ waiterPc' = "wait" /\ waiterOpTime <= lastDurable)
             => lastDurable' = lastDurable]_vars

\* Both kinds of publish have acted with an op-time below the published one.
C10_Witness ==
    /\ isDurable
    /\ mainPc = "fin_idle"
    /\ batchesDone >= 2
    /\ recArg # NullOpTime
    /\ recArg < lastApplied
    /\ waiterPc = "wait"
    /\ waiterOpTime # NullOpTime
    /\ waiterOpTime < lastDurable

\* C11: last-durable changes only in the step in which a waitUntilDurable call
\* returns, and then to the op-time that call was begun for; a
\* waitUntilDurable call begins only by taking a non-null op-time out of
\* _latestOpTime; and _latestOpTime becomes non-null only by record() storing
\* its argument. So every op-time published as durable was handed to record()
\* before the flush that preceded its publication began.
C11_DurableAfterSubsequentFlush ==
    [][/\ lastDurable' # lastDurable
            => /\ waiterPc = "flush" /\ waiterPc' = "wait"
               /\ lastDurable' = waiterOpTime
       /\ (waiterPc # "flush" /\ waiterPc' = "flush")
            => /\ latestOpTime # NullOpTime
               /\ waiterOpTime' = latestOpTime
               /\ latestOpTime' = NullOpTime
       /\ (latestOpTime' # latestOpTime /\ latestOpTime' # NullOpTime)
            => /\ mainPc = "record_notify"
               /\ latestOpTime' = recArg
       /\ waiterPc = "flush" => waiterOpTime' = waiterOpTime]_vars

\* A flush has returned and its op-time is the published last-durable, while
\* the op-time of a later record() call waits for the next flush.
C11_Witness ==
    /\ isDurable
    /\ waiterPc = "wait"
    /\ waiterOpTime # NullOpTime
    /\ lastDurable = waiterOpTime
    /\ latestOpTime # NullOpTime
    /\ latestOpTime > lastDurable

\* ===================================================== multiApply, called
\* repl::multiApply called directly, with any arguments and in any member
\* state, and with exceptions thrown inside its block.
MaxCallLen == 2

\* Three inserts into one collection: enough for one grouped insert.
InsertRun ==
    <<MkEntry("i", "a.x", 1, 1), MkEntry("i", "a.x", 2, 1), MkEntry("i", "a.x", 1, 1)>>

\* A longer run of larger inserts: a grouped insert holds two of them, so
\* that a group can fail and a later group can form after it.
LongInsertRun ==
    <<MkEntry("i", "a.x", 1, 2), MkEntry("i", "a.x", 2, 2), MkEntry("i", "a.x", 1, 2),
      MkEntry("i", "a.x", 2, 2), MkEntry("i", "a.x", 1, 2)>>

\* A batch that the pool threads cannot share evenly.
BulkBatchPlusOne == Append(BulkBatch, MkEntry("n", "a.x", 0, 1))

\* The batches of the calls: none, or up to MaxCallLen CRUD ops, a run of
\* inserts, or a batch large enough for parallel oplog writes.
CallBatches ==
    {<<>>} \cup UNION {[1..k -> CoreTemplates] : k \in 1..MaxCallLen}
        \cup {BulkBatch, BulkBatchPlusOne, InsertRun, LongInsertRun}

\* The caller is back from multiApply with this status.
ErrorStatuses == {"BadValue", "EmptyArrayOperation", "CannotApplyOplogWhilePrimary"}

\* multiApply up to the primary check, called directly: any status but OK is
\* returned to the caller. Parallel-batch-writer mode, taken before the primary
\* check, is released again by that return.
MultiApplyCalled ==
    /\ fatal = ""
    /\ mainPc = "multiApply"
    /\ LET status == multiApplyChecks(callArgs.txn, callArgs.pool, ops = <<>>,
                                      callArgs.fn, callArgs.primary) IN
       IF status # "OK"
       THEN mainPc' = status /\ UNCHANGED pbwm
       ELSE mainPc' = "ma_setDeleteFrom" /\ pbwm' = TRUE
    /\ UNCHANGED <<batchVars, pool, fatal, oplogDeleteFromPoint, minValid,
                   appliedThrough, globalTimestamp, localOplog, applyState, recArg,
                   shutdownSignaled, slot>>
    /\ MainUnchanged

\* The statements of multiApply's block that can throw.
ThrowingPcs ==
    {"ma_setDeleteFrom", "ma_schedule", "ma_fill", "ma_clearDeleteFrom",
     "ma_setMinValid", "ma_applyOps"}

\* A statement of the block throws: the stack unwinds into ON_BLOCK_EXIT.
MultiApplyThrows ==
    /\ fatal = ""
    /\ mainPc \in ThrowingPcs
    /\ mainPc' = "ma_unwind"
    /\ UNCHANGED <<batchVars, pool, pbwm, fatal, oplogDeleteFromPoint, minValid,
                   appliedThrough, globalTimestamp, localOplog, applyState, recArg,
                   shutdownSignaled, slot>>
    /\ MainUnchanged

\* An unwinding that leaves the block without the join.
MultiApplyUnwound_noJoin ==
    /\ MainStep("ma_unwind", "threw")
    /\ pbwm' = FALSE
    /\ UNCHANGED <<batchVars, pool, fatal, oplogDeleteFromPoint, minValid,
                   appliedThrough, globalTimestamp, localOplog, applyState, recArg,
                   shutdownSignaled, slot>>
    /\ MainUnchanged

\* Unwinding: ON_BLOCK_EXIT joins the pool, then the ParallelBatchWriterMode
\* and the batch are destroyed and the exception reaches the caller.
MultiApplyUnwound ==
    /\ MainStep("ma_unwind", "threw")
    /\ PoolJoined(pool)
    /\ pool' = SelectSeq(pool, NotDone)
    /\ pbwm' = FALSE
    /\ BatchState(<<>>)
    /\ UNCHANGED <<lastOpTimeInBatch, fatal, oplogDeleteFromPoint, minValid, appliedThrough,
                   globalTimestamp, localOplog, applyState, recArg, shutdownSignaled,
                   slot>>
    /\ MainUnchanged

InitMultiApply ==
    /\ supportsDocLocking \in BOOLEAN
    /\ isDurable = TRUE
    /\ numWriters \in 1..MaxWriters
    /\ catalog = [ns \in {"a.x"} |-> DefaultProperties]
    /\ callArgs \in CallArgsSet
    /\ drain = NoDrain
    /\ sa = NoSyncApply
    /\ isw = NoInitialSync
    /\ gmd = NoGetMissingDoc
    /\ lastApplied = MaxStart
    /\ lastDurable = lastApplied
    /\ appliedThrough = lastApplied
    /\ globalTimestamp = lastApplied
    /\ minValid = lastApplied
    /\ oplogDeleteFromPoint = NullOpTime
    /\ mainPc = "multiApply"
    /\ \E b \in CallBatches : ops = Stamp(b, lastApplied + 1)
    /\ lastOpTimeInBatch = IF ops = <<>> THEN NullOpTime ELSE ops[Len(ops)].ts
    /\ isForCapped = [i \in DOMAIN ops |-> FALSE]
    /\ writerVectors = IF ops = <<>> THEN <<>> ELSE [w \in 1..numWriters |-> <<>>]
    /\ fillIdx = 1
    /\ collCache = <<>>
    /\ nsHashMemo = <<>>
    /\ mixMemo = <<>>
    /\ pool = <<>>
    /\ pbwm = FALSE
    /\ fatal = ""
    /\ batchesDone = 0
    /\ localOplog = [i \in DOMAIN ops |-> 0]
    /\ applyState = [i \in DOMAIN ops |-> "none"]
    /\ recArg = NullOpTime
    /\ latestOpTime = NullOpTime
    /\ shutdownSignaled = FALSE
    /\ waiterPc = "wait"
    /\ waiterOpTime = NullOpTime
    /\ slot = EmptyQueue
    /\ isDead = FALSE
    /\ UpstreamIdle

NextMultiApply ==
    \/ MultiApplyCalled
    \/ MultiApplyThrows
    \/ MultiApplyUnwound
    \/ SetOplogDeleteFromPoint
    \/ scheduleWritesToOplog
    \/ \E h1, h2 \in HashVals : fillWriterVectors(h1, h2)
    \/ JoinOplogWriters
    \/ ClearOplogDeleteFromPoint
    \/ SetMinValid
    \/ applyOps
    \/ JoinApplyWorkers
    \/ \E t \in DOMAIN pool : OplogWriterStart(t)
    \/ \E t \in DOMAIN pool : OplogWriterRun(t)
    \/ \E t \in DOMAIN pool : WorkerStart(t)
    \/ \E t \in DOMAIN pool : WorkerNext(t)
    \/ \E t \in DOMAIN pool, ok \in BOOLEAN : WorkerGroupReturn(t, ok)
    \/ \E t \in DOMAIN pool, ok \in BOOLEAN : WorkerSingleReturn(t, ok)
    \/ \E t \in DOMAIN pool : WorkerFinish(t)

SpecMultiApply == InitMultiApply /\ [][NextMultiApply]_vars

\* ========================================== claims under SpecMultiApply
BlockPcs == ThrowingPcs \cup {"ma_join", "ma_unwind"}

\* C16: parallel-batch-writer mode is held while multiApply is in its block,
\* while any task of the batch is queued or running and while any op is being
\* applied; oplogDeleteFromPoint is written only with the mode held; and the
\* mode is released only with every task of the pool done, on the normal exit
\* and on the exit by an exception.
C16_ParallelBatchWriterModeHeld ==
    /\ [](/\ mainPc \in BlockPcs => pbwm
          /\ (\E t \in DOMAIN pool : pool[t].st # "done") => pbwm
          /\ (\E i \in DOMAIN applyState : applyState[i] = "inflight") => pbwm)
    /\ [][/\ oplogDeleteFromPoint' # oplogDeleteFromPoint => (pbwm /\ pbwm')
          /\ localOplog' # localOplog => (pbwm /\ pbwm')
          /\ (pbwm /\ ~pbwm') => PoolJoined(pool)
          /\ (~pbwm /\ pbwm') => (pool = <<>> /\ oplogDeleteFromPoint = NullOpTime)]_vars

\* An exception has left the block while a task of the batch still runs: the
\* mode is held until the join.
C16_Witness ==
    /\ mainPc = "ma_unwind"
    /\ pbwm
    /\ \E t \in DOMAIN pool : pool[t].st = "running"

ArgsBad == ~callArgs.txn \/ ~callArgs.pool \/ ~callArgs.fn \/ ops = <<>>

\* C17: a call of multiApply with a null context, pool or apply function or
\* with no ops returns BadValue, or EmptyArrayOperation when the ops are empty
\* and context and pool are present; a call with valid arguments on a primary
\* that is neither draining nor catching up returns
\* CannotApplyOplogWhilePrimary; and in the state the call returns to, no task
\* has been scheduled, no entry written or applied, and oplogDeleteFromPoint
\* and minValid are what they were.
C17_MultiApplyRejects ==
    /\ [][(mainPc = "multiApply" /\ mainPc' # "multiApply")
            => /\ ArgsBad => mainPc' \in {"BadValue", "EmptyArrayOperation"}
               /\ (ArgsBad /\ ops # <<>>) => mainPc' = "BadValue"
               /\ (callArgs.txn /\ callArgs.pool /\ ops = <<>>)
                     => mainPc' = "EmptyArrayOperation"
               /\ (~ArgsBad /\ callArgs.primary)
                     => mainPc' = "CannotApplyOplogWhilePrimary"
               /\ mainPc' \in ErrorStatuses
                     => /\ pool' = pool
                        /\ oplogDeleteFromPoint' = oplogDeleteFromPoint
                        /\ minValid' = minValid]_vars
    /\ [](mainPc \in ErrorStatuses
            => /\ pool = <<>>
               /\ oplogDeleteFromPoint = NullOpTime
               /\ minValid = lastApplied
               /\ ~pbwm
               /\ \A i \in DOMAIN ops : localOplog[i] = 0 /\ applyState[i] = "none")

\* A call with valid arguments on a primary has returned.
C17_Witness ==
    /\ mainPc = "CannotApplyOplogWhilePrimary"
    /\ callArgs.primary
    /\ ~ArgsBad
    /\ pool = <<>>

\* ------------------------------------------------------------ insert groups
\* The slot of task t is a run of k inserts into one collection that is not
\* capped, 2 <= k <= kMaxGroupCount, with a payload within insertVectorMaxBytes.
GroupableSlot(t) ==
    LET vec == pool[t].vec
    IN  /\ pool[t].kind = "apply"
        /\ Len(vec) >= 2
        /\ Len(vec) <= kMaxGroupCount
        /\ \A k \in DOMAIN vec : /\ ops[vec[k]].op = "i"
                                 /\ ops[vec[k]].ns = ops[vec[1]].ns
                                 /\ ~isForCapped[vec[k]]
        /\ SumSizes([k \in DOMAIN vec |-> ops[vec[k]]]) <= InsertVectorMaxBytes

\* No grouped insert of task t has failed: doNotGroupBeforePoint is still begin().
NoGroupFailed(t) == pool[t].dngb = 1

\* C19: while no grouped insert has failed, every syncApply call the worker
\* makes for a slot of k groupable inserts is one grouped call over all k ops
\* of the slot (so it makes no single-op call).
C19_AllInsertsInOneGroupedCall ==
    \A t \in DOMAIN pool :
        (GroupableSlot(t) /\ pool[t].st = "running" /\ NoGroupFailed(t)
            /\ pool[t].cur # <<>>)
        => (pool[t].gend # 0 /\ pool[t].cur = pool[t].vec)

\* What the worker does with such a slot: the first op has been applied alone
\* and the grouped call in flight holds the other k - 1.
C19_Witness ==
    \E t \in DOMAIN pool :
        /\ GroupableSlot(t) /\ pool[t].st = "running" /\ NoGroupFailed(t)
        /\ applyState[pool[t].vec[1]] = "done"
        /\ pool[t].gend # 0
        /\ pool[t].cur = SubSeq(pool[t].vec, 2, Len(pool[t].vec))

\* Task t is an apply worker inside its loop.
InLoop(t) == pool[t].kind = "apply" /\ pool[t].st = "running"

\* After a failed grouped insert of task t: a call in flight for an op of the
\* failed group is a single-op call for the op at the iterator, a grouped call
\* starts after the group's last op, and the ops before the iterator have been
\* applied while those after the call in flight have not.
FallbackInOrder(t) ==
    LET vec == pool[t].vec
        it == pool[t].it
    IN  /\ pool[t].gend # 0 => it > pool[t].failedTo
        /\ (it <= pool[t].failedTo /\ pool[t].cur # <<>>)
               => (pool[t].gend = 0 /\ pool[t].cur = <<vec[it]>>)
        /\ \A k \in DOMAIN vec :
               /\ k < it => applyState[vec[k]] = "done"
               /\ (k >= it + Len(pool[t].cur) /\ k >= it) => applyState[vec[k]] = "none"

\* The step in which a grouped insert of task t fails.
GroupFails(t) ==
    /\ t \in DOMAIN pool'
    /\ InLoop(t)
    /\ pool[t].gend # 0
    /\ pool'[t].failedTo # pool[t].failedTo

\* C20: when a grouped insert fails the worker applies the group's first op
\* alone, then every remaining op of the group one by one in slot order, with
\* no grouped insert that holds an op of the failed group; a later group
\* starts after the failed group's last op, and doNotGroupBeforePoint never
\* moves backwards.
C20_GroupFailureFallback ==
    /\ [](\A t \in DOMAIN pool : (InLoop(t) /\ pool[t].failedTo > 0) => FallbackInOrder(t))
    /\ [][\A t \in DOMAIN pool :
            /\ GroupFails(t) => /\ pool'[t].cur = <<pool[t].vec[pool[t].it]>>
                                /\ pool'[t].gend = 0
                                /\ pool'[t].it = pool[t].it
                                /\ pool'[t].failedTo = pool[t].it + Len(pool[t].cur) - 1
            /\ (t \in DOMAIN pool' /\ InLoop(t) /\ pool'[t].st = "running")
                   => pool'[t].dngb >= pool[t].dngb]_vars

\* A grouped insert failed, every op of the failed group has been applied
\* alone, and a later grouped insert is in flight.
C20_Witness ==
    \E t \in DOMAIN pool :
        /\ InLoop(t)
        /\ pool[t].failedTo > 0
        /\ \A k \in 1..pool[t].failedTo : applyState[pool[t].vec[k]] = "done"
        /\ pool[t].gend # 0
        /\ pool[t].it = pool[t].failedTo + 1

\* The documents a single-op apply of each op of the call would insert, in
\* slot order.
OneByOne(t) == [k \in DOMAIN pool[t].cur |-> Payload(ops[pool[t].cur[k]])]

\* C21: the grouped entry handed to syncApply carries every top-level field
\* of the group's first op but "o", and its "o" is the array of the documents
\* of exactly the group's ops in slot order: the documents, and their order,
\* that applying the group's ops one by one inserts.
C21_GroupedEntry ==
    \A t \in DOMAIN pool :
        (InLoop(t) /\ pool[t].gend # 0) =>
            LET first == ops[pool[t].vec[pool[t].it]]
                grp == pool[t].arg[1]
            IN  /\ pool[t].cur = SubSeq(pool[t].vec, pool[t].it, pool[t].gend - 1)
                /\ grp.raw = first.raw /\ grp.op = first.op /\ grp.ns = first.ns
                /\ grp.ts = first.ts /\ grp.ver = first.ver
                /\ grp.o = OneByOne(t)

\* A grouped insert of two different documents is in flight.
C21_Witness ==
    \E t \in DOMAIN pool :
        /\ InLoop(t) /\ pool[t].gend # 0
        /\ Len(pool[t].arg[1].o) >= 2
        /\ pool[t].arg[1].o[1] # pool[t].arg[1].o[2]

\* ------------------------------------------------------- crash mid-apply
\* An apply worker of the batch is running: what a crash now leaves on disk
\* is the local oplog, oplogDeleteFromPoint and minValid of this state.
MidApply == \E t \in ApplyTasks : pool[t].st = "running"

\* C22 as stated: mid-apply, every entry of the batch is in the local oplog
\* and oplogDeleteFromPoint still holds the batch's first timestamp.
C22_MarkerSetMidApply ==
    MidApply => (AllOplogWritten /\ oplogDeleteFromPoint = ops[1].ts)

\* C22, amended: mid-apply, every entry of the batch is in the local oplog
\* exactly once, oplogDeleteFromPoint has been cleared and minValid is at
\* least the batch's last op-time.
C22_OplogCompleteMarkerClearedMidApply ==
    MidApply => (/\ AllOplogWritten
                 /\ oplogDeleteFromPoint = NullOpTime
                 /\ minValid >= ops[Len(ops)].ts)

\* A worker is applying an op of a batch whose first timestamp is not null.
C22_Witness ==
    /\ MidApply
    /\ ops[1].ts # NullOpTime
    /\ \E i \in DOMAIN applyState : applyState[i] = "inflight"

\* ------------------------------------------------- apply order in a slot
\* Ops i and j of the batch were put in one writer slot.
SameSlot(i, j) == SlotOfOp(i) # 0 /\ SlotOfOp(i) = SlotOfOp(j)

\* Op i has been applied before op j is handed to syncApply, or both travel
\* in one grouped insert with i before j.
AppliedBefore(i, j) == applyState[j] # "none" => (applyState[i] = "done" \/ InOneCall(i, j))

\* C23 as stated: of any two ops of one slot the earlier in the batch is
\* applied first, whatever their namespaces.
C23_SlotInSourceOrder ==
    \A i \in DOMAIN ops : \A j \in DOMAIN ops :
        (i < j /\ SameSlot(i, j) /\ mainPc \in {"ma_applyOps", "ma_join"})
            => AppliedBefore(i, j)

\* C23, amended: of any two ops of one slot on the same namespace the earlier
\* in the batch is applied first.
C23_SlotInSourceOrderPerNamespace ==
    \A i \in DOMAIN ops : \A j \in DOMAIN ops :
        (i < j /\ SameSlot(i, j) /\ ops[i].ns = ops[j].ns
            /\ mainPc \in {"ma_applyOps", "ma_join"})
            => AppliedBefore(i, j)

\* A slot holds ops of two namespaces; an op on one of them is being applied
\* after an earlier op on the same namespace and on another document.
C23_Witness ==
    \E i \in DOMAIN ops : \E j \in DOMAIN ops : \E k \in DOMAIN ops :
        /\ i < j /\ SameSlot(i, j) /\ SameSlot(i, k)
        /\ ops[i].ns = ops[j].ns /\ ops[i].id # ops[j].id
        /\ ops[k].ns # ops[i].ns
        /\ mainPc \in {"ma_applyOps", "ma_join"}
        /\ applyState[i] = "done" /\ applyState[j] = "inflight"

\* --------------------------------------------------- capped collections
\* Op i of the batch is an insert on a capped collection.
CappedInsert(i) == ops[i].op = "i" /\ getCollectionPropertiesImpl(ops[i].ns).isCapped

\* C24: every insert on a capped collection that the partitioner has placed
\* carries isForCappedCollection, the partitioner has placed every op of the
\* batch before an apply task exists, and no grouped insert in flight holds
\* an insert on a capped collection, first op or later member.
C24_CappedNeverGrouped ==
    /\ \A i \in DOMAIN ops : (CappedInsert(i) /\ i < fillIdx) => isForCapped[i]
    /\ ApplyTasks # {} => fillIdx > Len(ops)
    /\ \A t \in ApplyTasks :
           pool[t].gend # 0 =>
               \A k \in DOMAIN pool[t].cur :
                   ~CappedInsert(pool[t].cur[k]) /\ ~isForCapped[pool[t].cur[k]]

\* A worker is applying, alone, an insert on a capped collection that is
\* beyond the first op of its slot and is followed by another such insert.
C24_Witness ==
    \E t \in ApplyTasks :
        /\ InLoop(t)
        /\ pool[t].it >= 2 /\ pool[t].it < Len(pool[t].vec)
        /\ pool[t].cur = <<pool[t].vec[pool[t].it]>>
        /\ pool[t].failedTo = 0
        /\ CappedInsert(pool[t].vec[pool[t].it])
        /\ CappedInsert(pool[t].vec[pool[t].it + 1])

\* ------------------------------------------------------- size of a group
\* The payload bytes of all ops of the call in flight of task t.
GroupBytes(t) == SumSizes([k \in DOMAIN pool[t].cur |-> ops[pool[t].cur[k]]])

\* C25: every grouped insert in flight consists of adjacent inserts on one
\* namespace of the sorted slot, has at most kMaxGroupCount ops, and the
\* payload bytes of all its ops, the first included, are within
\* insertVectorMaxBytes.
C25_GroupWithinLimits ==
    \A t \in ApplyTasks :
        (InLoop(t) /\ pool[t].gend # 0) =>
            /\ pool[t].cur = SubSeq(pool[t].vec, pool[t].it, pool[t].gend - 1)
            /\ \A k \in DOMAIN pool[t].cur :
                   /\ ops[pool[t].cur[k]].op = "i"
                   /\ ops[pool[t].cur[k]].ns = ops[pool[t].cur[1]].ns
            /\ Len(pool[t].cur) <= kMaxGroupCount
            /\ GroupBytes(t) <= InsertVectorMaxBytes

\* A grouped insert in flight whose later members alone are within
\* insertVectorMaxBytes while the whole group is not.
C25_Witness ==
    \E t \in ApplyTasks :
        /\ InLoop(t) /\ pool[t].gend # 0
        /\ GroupBytes(t) - ops[pool[t].cur[1]].sz <= InsertVectorMaxBytes
        /\ GroupBytes(t) > InsertVectorMaxBytes

\* ------------------------------------------------------ the one-slot buffer
\* The top-level loop is inside getNextBatch.
InGetNextBatch == mainPc \in {"loop", "gnb_wait"}

\* The step in which the batcher thread writes the slot.
SlotWritten == slot' # slot /\ slot' # EmptyQueue

\* The step in which getNextBatch returns: it moves the slot out.
SlotTaken ==
    /\ InGetNextBatch
    /\ ~SlotWritten
    /\ mainPc' # mainPc \/ slot' # slot
    /\ mainPc' # "gnb_wait"

\* C26: the slot is written only when it holds no batch, and then with the
\* batch under assembly, which is not empty unless it carries the shutdown
\* flag; a batch in the slot is the latest one published and leaves the slot
\* only by being returned, whole, by getNextBatch, which empties the slot;
\* getNextBatch returns an empty result without the shutdown flag only after
\* waiting and with nothing in the slot.
C26_OneSlotHandoff ==
    /\ [](slot.ents # <<>> =>
            (publishedBatches # <<>> /\ slot.ents = publishedBatches[Len(publishedBatches)]))
    /\ [][/\ slot' # slot => (SlotWritten \/ SlotTaken)
          /\ SlotWritten => /\ slot = EmptyQueue
                            /\ slot' = bOps
                            /\ mainPc' = mainPc /\ ops' = ops
          /\ SlotTaken => /\ slot' = EmptyQueue
                          /\ publishedBatches' = publishedBatches
                          /\ (slot.ents # <<>> /\ slot.ents[1].raw) => ops' = slot.ents
                          /\ (slot.ents = <<>> /\ ~slot.shut) => mainPc = "gnb_wait"
                          /\ (mainPc' = "loop" /\ ops' = <<>> /\ mainPc = "loop")
                                 => slot.ents # <<>>]_vars

\* The batcher holds a third batch back while the second is in the slot and
\* the loop is busy with the first.
C26_Witness ==
    /\ Len(publishedBatches) = 2
    /\ slot.ents = publishedBatches[2]
    /\ bPc = "publish" /\ bOps.ents # <<>>
    /\ ops = publishedBatches[1]

\* ------------------------------------------------------ drained sentinel
\* The step in which getNextBatch returns a batch that begins with the
\* drained sentinel.
SentinelTaken ==
    /\ InGetNextBatch
    /\ slot.ents # <<>> /\ ~slot.ents[1].raw
    /\ slot' = EmptyQueue

\* C27: a batch that begins with the drained sentinel never reaches
\* multiApply; the loop iteration that takes it leaves the global timestamp,
\* appliedThrough, last-applied and last-durable as they were, and calls
\* signalDrainComplete exactly if the coordinator is waiting for the applier
\* to drain when asked.
C27_SentinelSkipsApply ==
    /\ []((InMultiApply /\ ops # <<>>) => ops[1].raw)
    /\ [](drain.signaled <=> (drain.sentinel /\ drain.waiting))
    /\ [][SentinelTaken =>
            (/\ mainPc' = "loop" \/ fatal' # ""
             /\ ops' = <<>>
             /\ UNCHANGED <<globalTimestamp, appliedThrough, lastApplied, lastDurable>>
             /\ fatal' = "" => (drain'.sentinel /\ (drain'.signaled <=> drain'.waiting)))]_vars

\* A sentinel batch was taken while the coordinator was waiting for the
\* drain, drain-complete was signalled, and the loop is back at getNextBatch
\* with the progress markers where they were.
C27_Witness ==
    /\ drain.sentinel /\ drain.waiting /\ drain.signaled
    /\ mainPc = "loop" /\ ops = <<>>
    /\ appliedThrough = MaxStart /\ lastApplied = MaxStart

\* ================================================================ syncApply
MaxConflicts == 3      \* write conflicts met by one syncApply call

\* The top-level loop, the pool, the finalizer and the batcher at rest.
PipelineIdle ==
    /\ supportsDocLocking = TRUE
    /\ isDurable = TRUE
    /\ numWriters = 1
    /\ catalog = [ns \in {"a.x"} |-> DefaultProperties]
    /\ mainPc = "idle"
    /\ ops = <<>>
    /\ lastOpTimeInBatch = NullOpTime
    /\ isForCapped = <<>>
    /\ writerVectors = <<>>
    /\ fillIdx = 1
    /\ collCache = <<>>
    /\ nsHashMemo = <<>>
    /\ mixMemo = <<>>
    /\ pool = <<>>
    /\ pbwm = FALSE
    /\ fatal = ""
    /\ batchesDone = 0
    /\ oplogDeleteFromPoint = NullOpTime
    /\ minValid = NullOpTime
    /\ appliedThrough = NullOpTime
    /\ globalTimestamp = NullOpTime
    /\ localOplog = <<>>
    /\ applyState = <<>>
    /\ lastApplied = NullOpTime
    /\ lastDurable = NullOpTime
    /\ recArg = NullOpTime
    /\ latestOpTime = NullOpTime
    /\ shutdownSignaled = FALSE
    /\ waiterPc = "wait"
    /\ waiterOpTime = NullOpTime
    /\ slot = EmptyQueue
    /\ isDead = FALSE
    /\ callArgs = ValidCallArgs
    /\ drain = NoDrain
    /\ UpstreamIdle

\* The classes of ops syncApply tells apart: an empty or dotted namespace, a
\* command, a no-op, an index build, a CRUD op and an unknown op type.
OpClasses == {"badNs", "command", "noop", "indexBuild", "crud", "unknown"}

\* The classes applied inside a write-conflict retry loop.
BlockClasses == {"command", "noop", "indexBuild", "crud"}

\* What applyOperationInLock or applyCommandInLock can do: return OK, another
\* error, a WriteConflict status, or throw WriteConflictException.
StorageOutcomes == {"OK", "Error", "WriteConflictStatus", "WriteConflictException"}

StatusOf(outcome) ==
    IF outcome = "WriteConflictStatus" THEN "WriteConflict" ELSE outcome

\* The locks of the scoped block once the storage-level apply is called.
BlockLocks(class, dbExists, collExists) ==
    IF class = "command" THEN {"GlobalWrite"}
    ELSE IF class \in {"noop", "indexBuild"} THEN {"DB_X"}
    ELSE IF dbExists /\ collExists THEN {"DB_IX", "Collection_IX"}
    ELSE {"DB_X", "Collection_X"}

\* A block that turns a WriteConflict status into the exception for every class.
BlockResult_alwaysThrows(class, outcome) ==
    IF outcome \in {"WriteConflictException", "WriteConflictStatus"} THEN "retry"
    ELSE StatusOf(outcome)

\* The outcome of one pass through the scoped block: WriteConflictException
\* is caught by the retry loop; applyOp (no-op, index build, CRUD) throws it
\* for a WriteConflict status; the command block returns the status it got.
BlockResult(class, outcome) ==
    IF outcome = "WriteConflictException" THEN "retry"
    ELSE IF class = "command" THEN StatusOf(outcome)
    ELSE IF outcome = "WriteConflictStatus" THEN "retry"
    ELSE StatusOf(outcome)

SyncApplyUnchanged ==
    UNCHANGED <<supportsDocLocking, isDurable, numWriters, catalog, callArgs, drain, isw, gmd,
                upstreamVars, hashVars, markerVars, batchVars, finVars, mainPc, pool, pbwm,
                fatal, batchesDone, localOplog, applyState, slot, isDead>>

\* The returns of syncApply outside the retry loops: OK for a bad namespace,
\* BadValue for an unknown op type.
SyncApplyNoBlock ==
    /\ sa.pc = "start"
    /\ sa.class \notin BlockClasses
    /\ sa' = [sa EXCEPT !.pc = "done",
                        !.status = IF sa.class = "badNs" THEN "OK" ELSE "BadValue"]
    /\ SyncApplyUnchanged

\* The beginning of the scoped block: the locks are taken.
SyncApplyEnterBlock ==
    /\ sa.pc = "start"
    /\ sa.class \in BlockClasses
    /\ sa' = [sa EXCEPT !.pc = "apply",
                        !.locks = BlockLocks(sa.class, sa.dbExists, sa.collExists)]
    /\ SyncApplyUnchanged

\* The storage-level apply is over: the block is left, which releases its
\* locks, towards the caller or towards the beginning of the block.
SyncApplyLeaveBlock(outcome) ==
    /\ sa.pc = "apply"
    /\ LET r == BlockResult(sa.class, outcome)
       IN  IF r = "retry"
           THEN /\ sa.conflicts < MaxConflicts
                /\ sa' = [sa EXCEPT !.pc = "start", !.locks = {},
                                    !.conflicts = @ + 1]
           ELSE sa' = [sa EXCEPT !.pc = "done", !.locks = {}, !.status = r]
    /\ SyncApplyUnchanged

InitSyncApply ==
    /\ PipelineIdle
    /\ isw = NoInitialSync
    /\ gmd = NoGetMissingDoc
    /\ \E class \in OpClasses : \E dbExists, collExists \in BOOLEAN :
          /\ collExists => dbExists
          /\ sa = [class |-> class, dbExists |-> dbExists, collExists |-> collExists,
                   pc |-> "start", locks |-> {}, conflicts |-> 0, status |-> ""]

NextSyncApply ==
    \/ SyncApplyNoBlock
    \/ SyncApplyEnterBlock
    \/ \E outcome \in StorageOutcomes : SyncApplyLeaveBlock(outcome)

SpecSyncApply == InitSyncApply /\ [][NextSyncApply]_vars

\* ============================================ claims under SpecSyncApply
\* The step in which the storage-level apply reports a write conflict, by
\* status or by exception.
ConflictReported ==
    /\ sa.pc = "apply"
    /\ sa'.pc # "apply"
    /\ sa'.conflicts # sa.conflicts \/ sa'.status = "WriteConflict"

\* C29: for every class of op, a write conflict reported by the storage-level
\* apply releases the locks of the scoped block and restarts the block, and
\* syncApply never returns WriteConflict.
C29_WriteConflictRetried ==
    /\ [](sa.status # "WriteConflict")
    /\ [][ConflictReported =>
            (sa'.pc = "start" /\ sa'.locks = {} /\ sa'.status = "")]_vars

\* A command whose apply returned a WriteConflict status: syncApply has
\* returned that status.
C29_Witness ==
    /\ sa.class = "command"
    /\ sa.pc = "done"
    /\ sa.status = "WriteConflict"

\* ---------------------------------------------------- oplog writer ranges
\* scheduleWritesToOplog has run and the pool has not been joined yet.
OplogTasksScheduled == mainPc = "ma_fill"

\* C28: scheduleWritesToOplog schedules one task for the whole batch when the
\* batch has fewer than kMinOplogEntriesPerThread * poolSize ops or the engine
\* has no document-level locking, and otherwise poolSize tasks whose ranges
\* are non-empty, contiguous and cover [0, ops.size()); no entry is written
\* to the local oplog twice, and after the join each has been written once.
C28_OplogWriterRanges ==
    /\ OplogTasksScheduled =>
          /\ \A t \in DOMAIN pool : pool[t].kind = "oplog"
          /\ IF Len(ops) < kMinOplogEntriesPerThread * numWriters \/ ~supportsDocLocking
             THEN Len(pool) = 1
             ELSE Len(pool) = numWriters
          /\ pool[1].lo = 0
          /\ pool[Len(pool)].hi = Len(ops)
          /\ \A t \in DOMAIN pool : pool[t].lo < pool[t].hi
          /\ \A t \in DOMAIN pool : t < Len(pool) => pool[t].hi = pool[t + 1].lo
    /\ \A i \in DOMAIN localOplog : localOplog[i] <= 1
    /\ mainPc \in {"ma_clearDeleteFrom", "ma_setMinValid", "ma_applyOps", "ma_join"}
          => AllOplogWritten

\* Two tasks have written a batch that does not divide evenly: the last one
\* took the remainder.
C28_Witness ==
    /\ OplogTasksScheduled
    /\ Len(pool) = 2
    /\ pool[2].hi - pool[2].lo = pool[1].hi - pool[1].lo + 1
    /\ \A t \in DOMAIN pool : pool[t].st = "done"
    /\ AllOplogWritten

\* =================================================== initial-sync worker
MaxSlotLen == 3        \* longest writer slot handed to the initial-sync worker

\* What a syncApply call of the worker can do: return OK or another status,
\* throw NamespaceNotFound or CannotIndexParallelArrays, throw something else.
ApplyOutcomes == {"OK", "Error", "ThrowIgnorable", "ThrowOther"}

\* What shouldRetry can do: return true (missing document fetched and
\* inserted), return false (not found on the source), or throw.
RetryOutcomes == {"true", "false", "ThrowIgnorable", "ThrowOther"}

\* e.toStatus(): the status of a caught exception, by its code.
toStatus(outcome) == IF outcome = "ThrowIgnorable" THEN "IgnorableCode" ELSE "OtherCode"

\* A catch block that skips the two codes on any op.
Ignored_anyOp(outcome, isCrud) == outcome = "ThrowIgnorable"

\* The catch block: the two ignorable codes on a CRUD op are skipped.
Ignored(outcome, isCrud) == outcome = "ThrowIgnorable" /\ isCrud

Threw(outcome) == outcome \in {"ThrowIgnorable", "ThrowOther"}

\* A worker that goes on after a failed second apply.
SecondApplyReturns_never(s2) == FALSE

\* if (!s2.isOK()) return s2
SecondApplyReturns(s2) == s2 # "OK"

InitialSyncUnchanged ==
    UNCHANGED <<supportsDocLocking, isDurable, numWriters, catalog, callArgs, drain, sa, gmd,
                upstreamVars, hashVars, markerVars, batchVars, finVars, mainPc, pool, pbwm,
                fatal, batchesDone, localOplog, applyState, slot, isDead>>

\* ++it (or continue): the op at the iterator is left with this fate.
ISWNextOp(w, fate) == [w EXCEPT !.fate[w.it] = fate, !.it = @ + 1, !.pc = "apply"]

\* return: the worker ends with this status at the op at the iterator.
ISWReturn(w, fate, status) ==
    [w EXCEPT !.fate[w.it] = fate, !.pc = "done", !.status = status]

\* The first syncApply of the op at the iterator.
InitialSyncApply(outcome) ==
    /\ isw.pc = "apply"
    /\ isw.it <= Len(isw.crud)
    /\ LET w == [isw EXCEPT !.calls[isw.it] = @ + 1]
       IN  isw' = IF outcome = "OK" THEN ISWNextOp(w, "applied")
                  ELSE IF outcome = "Error" THEN [w EXCEPT !.pc = "shouldRetry"]
                  ELSE IF Ignored(outcome, isw.crud[isw.it]) THEN ISWNextOp(w, "ignored")
                  ELSE ISWReturn(w, "threw", toStatus(outcome))
    /\ InitialSyncUnchanged

\* st->shouldRetry after a non-OK status.
InitialSyncShouldRetry(outcome) ==
    /\ isw.pc = "shouldRetry"
    /\ isw' = IF outcome = "true" THEN [isw EXCEPT !.pc = "reapply"]
              ELSE IF outcome = "false" THEN ISWNextOp(isw, "skipped")
              ELSE IF Ignored(outcome, isw.crud[isw.it]) THEN ISWNextOp(isw, "ignored")
              ELSE ISWReturn(isw, "threw", toStatus(outcome))
    /\ InitialSyncUnchanged

\* The second syncApply of the op, after shouldRetry returned true.
InitialSyncReapply(outcome) ==
    /\ isw.pc = "reapply"
    /\ LET w == [isw EXCEPT !.calls[isw.it] = @ + 1]
       IN  isw' = IF Threw(outcome)
                  THEN (IF Ignored(outcome, isw.crud[isw.it]) THEN ISWNextOp(w, "ignored")
                        ELSE ISWReturn(w, "threw", toStatus(outcome)))
                  ELSE IF SecondApplyReturns(outcome) THEN ISWReturn(w, "retryFailed", outcome)
                  ELSE ISWNextOp(w, IF outcome = "OK" THEN "reapplied" ELSE "retryFailed")
    /\ InitialSyncUnchanged

\* The loop is over: return Status::OK().
InitialSyncFinish ==
    /\ isw.pc = "apply"
    /\ isw.it > Len(isw.crud)
    /\ isw' = [isw EXCEPT !.pc = "done", !.status = "OK"]
    /\ InitialSyncUnchanged

InitInitialSync ==
    /\ PipelineIdle
    /\ sa = NoSyncApply
    /\ gmd = NoGetMissingDoc
    /\ \E n \in 1..MaxSlotLen : \E crud \in [1..n -> BOOLEAN] :
          isw = [crud |-> crud, it |-> 1, pc |-> "apply", calls |-> [k \in 1..n |-> 0],
                 fate |-> [k \in 1..n |-> "none"], status |-> ""]

NextInitialSync ==
    \/ \E outcome \in ApplyOutcomes : InitialSyncApply(outcome)
    \/ \E outcome \in RetryOutcomes : InitialSyncShouldRetry(outcome)
    \/ \E outcome \in ApplyOutcomes : InitialSyncReapply(outcome)
    \/ InitialSyncFinish

SpecInitialSync == InitInitialSync /\ [][NextInitialSync]_vars

\* ========================================== claims under SpecInitialSync
\* C30: an op whose apply returned a non-OK status and for which shouldRetry
\* returned true is applied exactly once more; if that second apply returns
\* a non-OK status the worker returns it and has applied no later op of the
\* slot; an op for which shouldRetry returned false is left after its one
\* apply and the worker goes on with the next op.
C30_InitialSyncRetry ==
    /\ [](\A k \in DOMAIN isw.fate :
            /\ isw.calls[k] <= 2
            /\ isw.fate[k] \in {"reapplied", "retryFailed"} => isw.calls[k] = 2
            /\ isw.fate[k] = "retryFailed" =>
                   /\ isw.pc = "done" /\ isw.status = "Error" /\ isw.it = k
                   /\ \A j \in DOMAIN isw.calls : j > k => isw.calls[j] = 0
            /\ isw.fate[k] = "skipped" => (isw.calls[k] = 1 /\ isw.it > k))
    /\ [][/\ (isw.pc = "shouldRetry" /\ isw'.pc = "reapply") => isw'.it = isw.it
          /\ (isw.pc = "shouldRetry" /\ isw'.fate[isw.it] = "skipped")
                 => (isw'.it = isw.it + 1 /\ isw'.pc = "apply" /\ isw'.status = "")
          /\ (isw.pc = "reapply" /\ isw'.fate[isw.it] = "retryFailed")
                 => (isw'.pc = "done" /\ isw'.status = "Error")]_vars

\* The worker skipped an op not found on the source, applied the next op
\* and ended on the failed second apply of the one after.
C30_Witness ==
    /\ Len(isw.fate) = 3
    /\ isw.fate[1] = "skipped" /\ isw.fate[2] = "applied" /\ isw.fate[3] = "retryFailed"
    /\ isw.pc = "done" /\ isw.status = "Error"

\* C31: an op left by the catch block without an error is a CRUD op and the
\* worker has gone on past it; an exception with one of the two codes on an
\* op that is not CRUD, and every other exception, ends the worker at that op
\* with the exception's status and no later op of the slot applied; the two
\* codes never end the worker at a CRUD op.
C31_IgnorableErrorsSwallowed ==
    \A k \in DOMAIN isw.fate :
        /\ isw.fate[k] = "ignored" => (isw.crud[k] /\ isw.it > k)
        /\ isw.fate[k] = "threw" =>
               /\ isw.pc = "done" /\ isw.it = k
               /\ isw.status \in {"IgnorableCode", "OtherCode"}
               /\ isw.status = "IgnorableCode" => ~isw.crud[k]
               /\ \A j \in DOMAIN isw.calls : j > k => isw.calls[j] = 0

\* The worker swallowed an exception on a CRUD op, applied the next op and
\* ended on the same exception thrown for an op that is not CRUD.
C31_Witness ==
    /\ Len(isw.fate) = 3
    /\ isw.fate[1] = "ignored" /\ isw.fate[2] = "applied" /\ isw.fate[3] = "threw"
    /\ ~isw.crud[3]
    /\ isw.pc = "done" /\ isw.status = "IgnorableCode"

\* ============================================================ getMissingDoc
retryMax == 3

\* A sleep that grows with the attempt number only.
RetrySleepSecs_linear(retryCount) == retryCount

\* sleepsecs(retryCount * retryCount) before a retry
RetrySleepSecs(retryCount) == retryCount * retryCount

\* What connect can do: return true, return false, throw a SocketException,
\* throw another DBException.  What findOne can do: return the document (or
\* an empty one), throw a SocketException, throw another DBException.
ConnectOutcomes == {"ok", "notOk", "SocketException", "DBException"}
FindOneOutcomes == {"findOneReturned", "findOneSocketException", "findOneDBException"}
NetworkFailures == {"notOk", "SocketException", "findOneSocketException"}

GetMissingDocUnchanged ==
    UNCHANGED <<supportsDocLocking, isDurable, numWriters, catalog, callArgs, drain, sa, isw,
                upstreamVars, hashVars, markerVars, batchVars, finVars, mainPc, pool, pbwm,
                fatal, batchesDone, localOplog, applyState, slot, isDead>>

\* The capped test and the first test of the fail point.
GetMissingDocEnter ==
    /\ gmd.pc = "entry"
    /\ gmd' = IF gmd.capped THEN [gmd EXCEPT !.pc = "done", !.result = "empty"]
              ELSE IF gmd.failPoint THEN [gmd EXCEPT !.pc = "hang"]
              ELSE [gmd EXCEPT !.pc = "loop"]
    /\ GetMissingDocUnchanged

\* while (MONGO_FAIL_POINT(...)) sleepsecs(1): left when the fail point is off.
GetMissingDocHang ==
    /\ gmd.pc = "hang"
    /\ ~gmd.failPoint
    /\ gmd' = [gmd EXCEPT !.pc = "loop"]
    /\ GetMissingDocUnchanged

\* The fail point is switched from outside while the call can still read it.
SetHangFailPoint(on) ==
    /\ gmd.pc \in {"entry", "hang"}
    /\ on # gmd.failPoint
    /\ gmd' = [gmd EXCEPT !.failPoint = on]
    /\ GetMissingDocUnchanged

\* One pass of the for loop up to the _id test: the sleep of a retry, the
\* connect, the fassert when the op has no _id.
GetMissingDocConnect(outcome) ==
    /\ gmd.pc = "loop"
    /\ gmd.retryCount <= retryMax
    /\ LET g == [gmd EXCEPT !.slept = IF gmd.retryCount # 1
                                        THEN Append(@, RetrySleepSecs(gmd.retryCount))
                                        ELSE @,
                            !.tried = Append(@, outcome)]
       IN  gmd' = IF outcome \in {"notOk", "SocketException"}
                      THEN [g EXCEPT !.retryCount = @ + 1]
                  ELSE IF outcome = "DBException"
                      THEN [g EXCEPT !.pc = "done", !.result = "DBException"]
                  ELSE IF ~gmd.hasId
                      THEN [g EXCEPT !.pc = "done", !.result = "fassert28742"]
                  ELSE [g EXCEPT !.pc = "findOne"]
    /\ GetMissingDocUnchanged

\* The findOne of the pass and its two catch blocks.
GetMissingDocFindOne(outcome) ==
    /\ gmd.pc = "findOne"
    /\ LET g == [gmd EXCEPT !.tried[Len(gmd.tried)] = outcome]
       IN  gmd' = IF outcome = "findOneSocketException"
                      THEN [g EXCEPT !.retryCount = @ + 1, !.pc = "loop"]
                  ELSE IF outcome = "findOneDBException"
                      THEN [g EXCEPT !.pc = "done", !.result = "DBException"]
                  ELSE [g EXCEPT !.pc = "done", !.result = "missingObj"]
    /\ GetMissingDocUnchanged

\* The loop ran out: msgasserted(15916).
GetMissingDocGiveUp ==
    /\ gmd.pc = "loop"
    /\ gmd.retryCount > retryMax
    /\ gmd' = [gmd EXCEPT !.pc = "done", !.result = "15916"]
    /\ GetMissingDocUnchanged

GetMissingDocStep ==
    \/ GetMissingDocEnter
    \/ GetMissingDocHang
    \/ \E outcome \in ConnectOutcomes : GetMissingDocConnect(outcome)
    \/ \E outcome \in FindOneOutcomes : GetMissingDocFindOne(outcome)
    \/ GetMissingDocGiveUp

InitGetMissingDoc ==
    /\ PipelineIdle
    /\ sa = NoSyncApply
    /\ isw = NoInitialSync
    /\ \E capped, hasId, failPoint \in BOOLEAN :
          gmd = [NoGetMissingDoc EXCEPT !.capped = capped, !.hasId = hasId,
                                        !.failPoint = failPoint, !.pc = "entry"]

NextGetMissingDoc ==
    \/ GetMissingDocStep
    \/ \E on \in BOOLEAN : SetHangFailPoint(on)

\* The thread running the call keeps running; nothing is assumed about the
\* fail point.
SpecGetMissingDoc ==
    InitGetMissingDoc /\ [][NextGetMissingDoc]_vars /\ WF_vars(GetMissingDocStep)

\* ======================================== claims under SpecGetMissingDoc
\* The attempts of a call: at most retryMax; every attempt but the last ended
\* in a failed connect or a socket error; attempt k > 1 was preceded by a
\* sleep of k*k seconds and the first by none; a capped collection gives the
\* empty document with no attempt; a returned findOne ends the call with the
\* document; another exception ends it at once; 15916 is raised after
\* retryMax failed attempts and not before.
GetMissingDocAttempts ==
    LET n == Len(gmd.tried) IN
    /\ n <= retryMax
    /\ \A k \in 1..(n - 1) : gmd.tried[k] \in NetworkFailures
    /\ Len(gmd.slept) = (IF n = 0 THEN 0 ELSE n - 1)
    /\ \A k \in 2..n : gmd.slept[k - 1] = k * k
    /\ gmd.capped => n = 0
    /\ gmd.result = "empty" <=> (gmd.capped /\ gmd.pc = "done")
    /\ (n > 0 /\ gmd.tried[n] = "findOneReturned")
          <=> (gmd.pc = "done" /\ gmd.result = "missingObj")
    /\ (n > 0 /\ gmd.tried[n] \in {"DBException", "findOneDBException"})
          <=> (gmd.pc = "done" /\ gmd.result = "DBException")
    /\ gmd.result = "15916"
          <=> (gmd.pc = "done" /\ n = retryMax /\ gmd.tried[n] \in NetworkFailures)
    /\ (n > 0 /\ gmd.tried[n] \in NetworkFailures /\ gmd.pc # "done")
          => gmd.retryCount = n + 1

\* C32: the attempts are as above, and the call ends provided the fail point
\* initialSyncHangBeforeGettingMissingDocument is off from some point on.
C32_GetMissingDocEndsWhenNotHung ==
    /\ []GetMissingDocAttempts
    /\ (<>[](~gmd.failPoint)) => <>(gmd.pc = "done")

\* C32 as stated: the attempts are as above, and the call always ends.
C32_GetMissingDocAlwaysEnds ==
    /\ []GetMissingDocAttempts
    /\ <>(gmd.pc = "done")

\* Three attempts failed on the network, two in connect and one in findOne,
\* with sleeps of 4 and 9 seconds between them, and the call raised 15916.
C32_Witness ==
    /\ gmd.pc = "done" /\ gmd.result = "15916"
    /\ gmd.slept = <<4, 9>>
    /\ gmd.tried = <<"notOk", "findOneSocketException", "SocketException">>

\* ============================== claims under SpecMultiApply (apply once)
\* No apply call of the batch has failed so far.
NoApplyFailed == fatal = "" /\ \A t \in ApplyTasks : pool[t].failedTo = 0

\* The places of op i in the writer vectors.
PlacesOf(i) ==
    {p \in (DOMAIN writerVectors) \X (1..Len(ops)) :
        p[2] <= Len(writerVectors[p[1]]) /\ writerVectors[p[1]][p[2]] = i}

\* Every op the fill has passed is in exactly one writer vector, the others in
\* none.
PlacedOnce ==
    mainPc \in {"ma_fill", "ma_clearDeleteFrom", "ma_setMinValid", "ma_applyOps", "ma_join"}
        => \A i \in 1..Len(ops) :
               Cardinality(PlacesOf(i)) = (IF i < fillIdx THEN 1 ELSE 0)

\* After applyOps there is one task per non-empty writer vector and none for
\* an empty one, and the task runs the ops of its vector, each once.
OneTaskPerVector ==
    mainPc = "ma_join" =>
        \A w \in DOMAIN writerVectors :
            LET ts == {t \in ApplyTasks : pool[t].slot = w} IN
            /\ Cardinality(ts) = (IF writerVectors[w] # <<>> THEN 1 ELSE 0)
            /\ \A t \in ts :
                  /\ Len(pool[t].vec) = Len(writerVectors[w])
                  /\ {pool[t].vec[k] : k \in DOMAIN pool[t].vec}
                        = {writerVectors[w][k] : k \in DOMAIN writerVectors[w]}

\* While no call has failed, a worker has applied the ops before its
\* iterator, is applying the ops of the call in flight, which are the ops at
\* the iterator, and has not touched the ops after them; a worker that has
\* returned has applied its whole vector.
AppliedUpToIterator ==
    NoApplyFailed =>
        \A t \in ApplyTasks :
            LET vec == pool[t].vec
                it == pool[t].it
                n == Len(pool[t].cur)
            IN  /\ pool[t].st = "queued" =>
                      \A k \in DOMAIN vec : applyState[vec[k]] = "none"
                /\ pool[t].st \in {"running", "done"} =>
                      /\ pool[t].cur = SubSeq(vec, it, it + n - 1)
                      /\ \A k \in DOMAIN vec :
                            applyState[vec[k]] = (IF k < it THEN "done"
                                                  ELSE IF k < it + n THEN "inflight"
                                                  ELSE "none")
                      /\ n > 1 <=> pool[t].gend # 0
                /\ pool[t].st = "done" => it = Len(vec) + 1

\* A call is started only on ops never applied before, and an applied op of
\* the batch stays applied: no second call includes it.
NoSecondCall ==
    (NoApplyFailed /\ mainPc = "ma_join" /\ mainPc' = "ma_join") =>
        \A i \in DOMAIN applyState :
            /\ (applyState[i] # "inflight" /\ applyState'[i] = "inflight")
                  => applyState[i] = "none"
            /\ applyState[i] = "done" => applyState'[i] = "done"

\* C33: while every apply call succeeds, every op is placed in exactly one
\* writer vector, one task runs per non-empty vector, the calls of a worker
\* cover its vector front to back without overlap or gap (each op in one
\* grouped insert or in one single-op call), and when the workers are joined
\* every op of the batch has been applied.
C33_EachOpAppliedOnce ==
    /\ [](PlacedOnce /\ OneTaskPerVector /\ AppliedUpToIterator)
    /\ [][NoSecondCall]_vars
    /\ []((NoApplyFailed /\ mainPc = "ma_join" /\ PoolJoined(pool)) => AllApplied)

\* A worker applied the first op of its vector alone and is applying the
\* next two as one grouped insert, no call having failed.
C33_Witness ==
    /\ NoApplyFailed
    /\ mainPc = "ma_join"
    /\ \E t \in ApplyTasks :
          /\ pool[t].st = "running" /\ pool[t].it = 2
          /\ Len(pool[t].cur) = 2 /\ pool[t].gend = 4
          /\ applyState[pool[t].vec[1]] = "done"

\* ================================ claims under SpecBatcher (destruction)
\* oplogApplication has executed its return statement.
OplogApplicationReturned ==
    mainPc \in {"dtor_finalizer", "dtor_join", "returned", "batcherDestroyed"}

\* Once dead, the batcher thread stays ended and publishes nothing more: the
\* slot changes only by being taken.
NothingAfterShutdownBatch ==
    isDead => /\ isDead' /\ bPc' = "exit"
              /\ publishedBatches' = publishedBatches
              /\ slot' \in {slot, EmptyQueue}

\* C34: when oplogApplication has returned, the batcher thread has set _isDead
\* and ended, so the destructor's invariant never fails and its join does not
\* block; _isDead is set in the step that publishes the mustShutdown batch; a
\* batch with mustShutdown set, assembled or published, is empty; and nothing
\* is published after it.
C34_BatcherDeadWhenDestroyed ==
    /\ [](OplogApplicationReturned => (isDead /\ bPc = "exit"))
    /\ [](fatal # "invariant(_isDead)")
    /\ [](slot.shut => (slot.ents = <<>> /\ isDead))
    /\ [](bOps.shut => bOps.ents = <<>>)
    /\ [][NothingAfterShutdownBatch]_vars
    /\ [][(~isDead /\ isDead') => (slot'.shut /\ ~slot.shut)]_vars

\* The batcher published batches and then the shutdown batch; the loop
\* returned, the finalizer and then the batcher were destroyed.
C34_Witness ==
    /\ mainPc = "batcherDestroyed"
    /\ isDead
    /\ fatal = ""
    /\ Len(publishedBatches) >= 2

\* ============================== claims under SpecFinalizer (durable/applied)
\* C35: with the journal finalizer, the published last-durable op-time is at
\* most the published last-applied op-time, and so is every op-time on its way
\* to the waiter (_latestOpTime) or held by it during a flush: record()
\* publishes its argument as applied before storing it for the waiter, and
\* the waiter publishes only what it took from there.
C35_DurableAtMostApplied ==
    isDurable => /\ lastDurable <= lastApplied
                 /\ latestOpTime <= lastApplied
                 /\ waiterOpTime <= lastApplied

\* The waiter has published the op-time of the latest record() call, which
\* moved last-applied and then last-durable forward to the same op-time.
C35_Witness ==
    /\ isDurable
    /\ mainPc = "fin_idle"
    /\ batchesDone = 1
    /\ waiterPc = "wait"
    /\ recArg = MaxOpTime
    /\ waiterOpTime = recArg
    /\ latestOpTime = NullOpTime
    /\ lastApplied = recArg
    /\ lastDurable = recArg

\* ================================================ the finalizer, scheduled
\* The owner's thread and the waiter thread keep running: a call of record()
\* or of the destructor that has begun is carried through, a woken waiter
\* takes the op-time or sees the shutdown flag, and every waitUntilDurable
\* call returns. When the owner calls record() or lets go of the finalizer is
\* its own choice.
FinalizerFairness ==
    /\ WF_vars(RecordApplied("fin_idle"))
    /\ WF_vars(RecordNotify("fin_idle"))
    /\ WF_vars(FinalizerShutdown)
    /\ WF_vars(FinalizerJoin)
    /\ WF_vars(WaiterTake)
    /\ WF_vars(WaiterDurable)
    /\ WF_vars(WaiterExit)

SpecFinalizerFair == InitFinalizer /\ [][NextFinalizer]_vars /\ FinalizerFairness

\* The destructor's part: once shutdown is signalled the waiter ends, and the
\* destructor's join returns.
JoinTerminates ==
    /\ (isDurable /\ shutdownSignaled) ~> (waiterPc = "exit")
    /\ (mainPc = "dtor_finalizer") ~> (mainPc = "returned")

\* C36: with the journal finalizer, after a call record(t) the published
\* last-durable op-time eventually becomes >= t, unless shutdown is signalled
\* or a later record call passes an op-time below t (which replaces t in
\* _latestOpTime before the waiter has taken it); on shutdown the waiter ends
\* and the destructor's join returns.
C36_RecordedBecomesDurable ==
    /\ \A t \in 1..MaxOpTime :
          (isDurable /\ mainPc = "record" /\ recArg = t)
              ~> (lastDurable >= t \/ shutdownSignaled \/ recArg < t)
    /\ JoinTerminates

\* C36 as stated: after any call record(t) last-durable eventually becomes
\* >= t unless shutdown is signalled, whatever the later record calls.
C36_AnyRecordedBecomesDurable ==
    /\ \A t \in 1..MaxOpTime :
          (isDurable /\ mainPc = "record" /\ recArg = t)
              ~> (lastDurable >= t \/ shutdownSignaled)
    /\ JoinTerminates

\* Three record calls with rising op-times, the last two coalesced: the
\* waiter flushed for the first, took the third after that flush and has
\* published it, and the second was never flushed for on its own.
C36_Witness ==
    /\ isDurable
    /\ mainPc = "fin_idle"
    /\ batchesDone = MaxRecordCalls
    /\ ~shutdownSignaled
    /\ recArg = MaxOpTime
    /\ waiterPc = "wait"
    /\ waiterOpTime = MaxOpTime
    /\ latestOpTime = NullOpTime
    /\ lastDurable = MaxOpTime
    /\ lastApplied = MaxOpTime

====
